---- MODULE Spec2Model ----
(***************************************************************************)
(* Model of the Zorro package-repository server: the upload (ingestion)    *)
(* pipeline of packages.rs / packages/binary_package.rs, the pool layout,  *)
(* and the SQLite metadata store of database.rs.                           *)
(*                                                                         *)
(* File names are sequences of one-character strings, so that the code's   *)
(* character tests (starts_with("lib"), chars().nth(3), path components)   *)
(* are computed and not assumed.                                           *)
(***************************************************************************)
EXTENDS Integers, Sequences, FiniteSets, TLC

(***************************************************************************)
(* Bounds of the model.                                                    *)
(***************************************************************************)
\* longest file name enumerated by the file-name specification
MaxNameLen == 4
\* number of requests (uploads and links) received while two handlers run concurrently
MaxOps == 2
\* number of requests received one after the other by the sequential specification
MaxSeqOps == 4
\* the length of the components and architectures lists of a configured distribution
MaxListLen == 2
\* the number of times the server is started on one database file
MaxStarts == 3
\* the longest text of a field of a rendered record
MaxTextLen == 3
\* the number of insert_debian_binary_package calls made on the store directly
MaxCalls == 3
\* the number of records built and persisted one after the other
MaxBuilds == 3

\* the two request handlers that run concurrently on the tokio runtime
Procs == {1, 2}

(***************************************************************************)
(* std::path::Path::components() on Linux, as used by                      *)
(* validate_upload_package_name and by Path::file_name().                  *)
(***************************************************************************)
Alphabet == {"/", ".", "l", "i", "b", "h"}

RECURSIVE SeqsUpTo(_)
SeqsUpTo(n) ==
  IF n = 0 THEN {<<>>}
  ELSE LET S == SeqsUpTo(n - 1)
       IN  S \cup {Append(s, c) : s \in {t \in S : Len(t) = n - 1}, c \in Alphabet}

\* every proposed file name of at most MaxNameLen characters
AllNames == SeqsUpTo(MaxNameLen)

\* the pieces of a path between its '/' separators (empty pieces included)
RECURSIVE SplitPieces(_, _)
SplitPieces(s, cur) ==
  IF s = <<>> THEN <<cur>>
  ELSE IF Head(s) = "/" THEN <<cur>> \o SplitPieces(Tail(s), <<>>)
  ELSE SplitPieces(Tail(s), Append(cur, Head(s)))

has_root(s) == s # <<>> /\ Head(s) = "/"

\* one piece as a path component; "skip" for a piece components() drops
Component(piece, first, rooted) ==
  IF piece = <<>> THEN [kind |-> "skip", name |-> <<>>]
  ELSE IF piece = <<".">> THEN
         IF first /\ ~rooted THEN [kind |-> "CurDir", name |-> piece]
         ELSE [kind |-> "skip", name |-> <<>>]
  ELSE IF piece = <<".", ".">> THEN [kind |-> "ParentDir", name |-> piece]
  ELSE [kind |-> "Normal", name |-> piece]

RECURSIVE ComponentsOf(_, _, _)
ComponentsOf(pieces, first, rooted) ==
  IF pieces = <<>> THEN <<>>
  ELSE LET c == Component(Head(pieces), first, rooted)
           rest == ComponentsOf(Tail(pieces), FALSE, rooted)
       IN  IF c.kind = "skip" THEN rest ELSE <<c>> \o rest

components(s) ==
  IF s = <<>> THEN <<>>
  ELSE (IF has_root(s) THEN <<[kind |-> "RootDir", name |-> <<"/">>]>> ELSE <<>>)
       \o ComponentsOf(SplitPieces(s, <<>>), TRUE, has_root(s))

\* Path::file_name(): Some(final component) when it is a normal one, else None
file_name(s) ==
  LET cs == components(s)
  IN  IF cs # <<>> /\ cs[Len(cs)].kind = "Normal" THEN <<cs[Len(cs)].name>> ELSE <<>>

\* validate_upload_package_name with the peek() test of the first component removed
validate_count_only(path) ==
  IF Len(components(path)) # 1 THEN "InvalidInput" ELSE "Ok"

\* validate_upload_package_name: "Ok" or the io::ErrorKind of the rejection
validate_upload_package_name(path) ==
  LET cs == components(path)
  IN  IF cs # <<>> /\ cs[1].kind # "Normal" THEN "InvalidInput"
      ELSE IF Len(cs) # 1 THEN "InvalidInput"
      ELSE "Ok"

(***************************************************************************)
(* Pool layout: the destination computed by move_package_to_pool.          *)
(***************************************************************************)
\* the outcome of a failed expect(): the handler's task panics
Panic == <<"panic!">>

starts_with_lib(n) ==
  Len(n) >= 3 /\ n[1] = "l" /\ n[2] = "i" /\ n[3] = "b"

\* pool_dest_dir with the "lib" branch removed: every name sharded by first character
pool_dest_dir_first_char(n) ==
  IF Len(n) >= 1 THEN <<n[1]>> ELSE Panic

\* the shard directory below pool_dir, or Panic where an expect() aborts
pool_dest_dir(n) ==
  IF starts_with_lib(n)
  THEN IF Len(n) >= 4 THEN <<"lib", n[4]>> ELSE Panic
  ELSE IF Len(n) >= 1 THEN <<n[1]>> ELSE Panic

\* new_deb_path = dest_dir.join(file_name_str), relative to pool_dir
pool_path(n) == [dir |-> pool_dest_dir(n), file |-> n]

(***************************************************************************)
(* Rust's Option<T>: None is the empty sequence, Some(x) is <<x>>.         *)
(***************************************************************************)
Some(x) == <<x>>
NoneOpt == <<>>
is_some(o) == o # <<>>
unwrap(o) == o[1]

(***************************************************************************)
(* Request bodies.  A body is named by a number; 0 is the content of a     *)
(* file that File::create has just created or truncated, and -b the        *)
(* content of a file that holds the first bytes of body b and not all.     *)
(***************************************************************************)
hello_key == [name |-> "hello", version |-> "2.10-2", architecture |-> "amd64"]
libsqlite0_key == [name |-> "libsqlite0", version |-> "2.8.17-15+deb10u1", architecture |-> "amd64"]

\* the control keys new_from_control reads with control.get(..) into Option fields
OptionalFields ==
  {"Source", "Section", "Priority", "Essential", "Depends", "Recommends", "Suggests",
   "Enhances", "Pre-Depends", "Breaks", "Conflicts", "Provides", "Replaces",
   "Installed-Size", "Homepage", "Built-Using"}

NoFields == [f \in OptionalFields |-> NoneOpt]

\* the optional fields the control block of the test package of that name carries
ControlFields(k) ==
  IF k.name = "hello"
  THEN [f \in OptionalFields |->
          CASE f = "Section" -> Some("devel")
            [] f = "Priority" -> Some("optional")
            [] f = "Depends" -> Some("libc6 (>= 2.14)")
            [] f = "Breaks" -> Some("hello-debhelper (<< 2.9)")
            [] f = "Conflicts" -> Some("hello-traditional")
            [] f = "Replaces" -> Some("hello-debhelper (<< 2.9), hello-traditional")
            [] f = "Installed-Size" -> Some("280")
            [] f = "Homepage" -> Some("http://www.gnu.org/software/hello/")
            [] OTHER -> NoneOpt]
  ELSE [f \in OptionalFields |->
          CASE f = "Source" -> Some("sqlite")
            [] f = "Section" -> Some("libs")
            [] f = "Suggests" -> Some("")
            [] OTHER -> NoneOpt]

\* debpkg::Control: name(), version(), get(key), long_description()
Ctl(k, arch, maint, descr) ==
  [package |-> k.name, version |-> k.version, architecture |-> arch,
   maintainer |-> maint, description |-> descr, fields |-> NoFields]

FullCtl(k) ==
  [Ctl(k, Some(k.architecture), Some("maintainer"), Some("description"))
     EXCEPT !.fields = ControlFields(k)]

\* kind: what DebPkg::parse / control() / Control::extract make of the bytes
Uploads == <<
  [kind |-> "deb", len |-> 5, control |-> Some(FullCtl(hello_key))],
  [kind |-> "deb", len |-> 6, control |-> Some(FullCtl(hello_key))],
  [kind |-> "deb", len |-> 5, control |-> Some(FullCtl(libsqlite0_key))],
  [kind |-> "deb", len |-> 4,
   control |-> Some(Ctl(hello_key, Some("amd64"), NoneOpt, Some("description")))],
  [kind |-> "not_ar", len |-> 3, control |-> NoneOpt]
>>

Bodies == 1..Len(Uploads)
Contents == 0..Len(Uploads)

\* the file names the concurrent specification uploads under
hello_deb == <<"h", "e", "l", "l", "o">>
libsqlite0_deb == <<"l", "i", "b", "s", "q", "l">>
traversal == <<".", ".", "/", "e">>
UploadNames == {hello_deb, libsqlite0_deb, traversal}

(***************************************************************************)
(* Errors: the enum variant that reaches the handler and its cause.        *)
(***************************************************************************)
Err(kind, cause) == [kind |-> kind, cause |-> cause, args |-> <<>>]
Ok == [kind |-> "Ok", cause |-> "Ok", args |-> <<>>]

(***************************************************************************)
(* Hash engine and file metadata: functions of the bytes read.             *)
(***************************************************************************)
calculate_hash(alg, content) == [alg |-> alg, input |-> content]
st_size(content) ==
  IF content = 0 THEN 0
  ELSE IF content < 0 THEN Uploads[-content].len - 1
  ELSE Uploads[content].len

(***************************************************************************)
(* Control extraction on the bytes found at the path.                      *)
(***************************************************************************)
read_control(content) ==
  IF content <= 0 THEN [err |-> Err("CouldNotParseDebianPackage", "debpkg"), control |-> NoneOpt]
  ELSE LET u == Uploads[content]
       IN  IF u.kind = "not_ar"
           THEN [err |-> Err("CouldNotParseDebianPackage", "debpkg"), control |-> NoneOpt]
           ELSE IF u.kind = "no_control"
           THEN [err |-> Err("CouldNotOpenControlDebianPackage", "debpkg"), control |-> NoneOpt]
           ELSE IF u.kind = "bad_control"
           THEN [err |-> Err("CouldNotExtractControlDebianPackage", "debpkg"), control |-> NoneOpt]
           ELSE [err |-> Ok, control |-> u.control]

(***************************************************************************)
(* Record building.                                                        *)
(***************************************************************************)
\* ControlMissingMandatoryInformation(control.name(), control.version(), field)
ControlMissingMandatoryInformation(control, field) ==
  [Err("ControlMissingMandatoryInformation", field)
     EXCEPT !.args = <<control.package, control.version, field>>]

\* the DebianBinaryPackage { .. } literal of new_from_control
DebianBinaryPackage(control, arch, maintainer, description, md5, sha1, sha256, filename, size) ==
  [filename |-> filename, size |-> size, md5sum |-> md5, sha1 |-> sha1,
   sha256 |-> sha256, description_md5 |-> NoneOpt,
   control |-> [package |-> control.package, version |-> control.version,
                architecture |-> arch, maintainer |-> maintainer,
                description |-> description,
                optional |-> [f \in OptionalFields |-> control.fields[f]]]]

\* new_from_control with unwrap_or_default() in place of the three matches
new_from_control_with_defaults(control, md5, sha1, sha256, filename, size) ==
  [err |-> Ok,
   package |-> Some(DebianBinaryPackage(
                 control,
                 IF is_some(control.architecture) THEN unwrap(control.architecture) ELSE "",
                 IF is_some(control.maintainer) THEN unwrap(control.maintainer) ELSE "",
                 IF is_some(control.description) THEN unwrap(control.description) ELSE "",
                 md5, sha1, sha256, filename, size))]

new_from_control(control, md5, sha1, sha256, filename, size) ==
  IF ~is_some(control.architecture)
  THEN [err |-> ControlMissingMandatoryInformation(control, "Architecture"),
        package |-> NoneOpt]
  ELSE IF ~is_some(control.maintainer)
  THEN [err |-> ControlMissingMandatoryInformation(control, "Maintainer"),
        package |-> NoneOpt]
  ELSE IF ~is_some(control.description)
  THEN [err |-> ControlMissingMandatoryInformation(control, "Description"),
        package |-> NoneOpt]
  ELSE [err |-> Ok,
        package |-> Some(DebianBinaryPackage(
                      control, unwrap(control.architecture), unwrap(control.maintainer),
                      unwrap(control.description), md5, sha1, sha256, filename, size))]

PackageKeyOf(pkg) ==
  [name |-> pkg.control.package, version |-> pkg.control.version,
   architecture |-> pkg.control.architecture]

(***************************************************************************)
(* The repository configuration (read-only after startup).                 *)
(***************************************************************************)
Dist(components_, architectures_) ==
  [origin |-> "origin", label |-> "label", version |-> "1.0", codename |-> "codename",
   description |-> "description", components |-> components_, architectures |-> architectures_]

\* archive.config.dists: distribution name -> Distribution
ConfigDists == [n \in {"stable"} |-> Dist(<<"main">>, <<"amd64", "i386">>)]

DistKey(n, c, a) == [name |-> n, component |-> c, architecture |-> a]

\* the keys requests ask to link: two materialized slices and one that is not
LinkDistKeys ==
  {DistKey("stable", "main", "amd64"), DistKey("stable", "main", "i386"),
   DistKey("stable", "contrib", "amd64")}
LinkPackageKeys == {hello_key, libsqlite0_key}

(***************************************************************************)
(* State.                                                                  *)
(***************************************************************************)
VARIABLES
  task,                  \* per request handler: its position and its locals
  inode,                 \* file system: inode number -> bytes of the file
  uploads,               \* directory uploads_dir: file name -> inode number
  pool,                  \* files under pool_dir: pool path -> inode number
  pool_dirs,             \* shard directories created under pool_dir
  debian_binary_package, \* table debian_binary_package: set of rows
  distributions,         \* table distributions: set of rows
  distribution_packages, \* table distribution_packages: set of rows
  sqlite_sequence,       \* AUTOINCREMENT counters, per table
  ops,                   \* number of requests received so far
  config,                \* archive.config.dists: distribution name -> Distribution
  release_dir,           \* files under PUBLISH_PATH: path -> text
  reply                  \* what the last call of the store returned to its caller

vars == <<task, inode, uploads, pool, pool_dirs, debian_binary_package, distributions,
          distribution_packages, sqlite_sequence, ops, config, release_dir, reply>>

\* the state the request handlers of the upload and link routes leave alone
auxvars == <<config, release_dir, reply>>

fsvars == <<inode, uploads, pool, pool_dirs>>
dbvars == <<debian_binary_package, distributions, distribution_packages, sqlite_sequence>>

Inodes == 1..(2 * Cardinality(Procs) + 2)

IdleTask ==
  [op |-> "none", pc |-> "idle", package_name |-> <<>>, body |-> 0, file |-> 0,
   control |-> NoneOpt, deb_path |-> NoneOpt, md5 |-> NoneOpt, sha1 |-> NoneOpt,
   sha256 |-> NoneOpt, package |-> NoneOpt, pkey |-> NoneOpt, dkey |-> NoneOpt,
   dist_id |-> 0, pkg_id |-> 0, result |-> NoneOpt, existed |-> FALSE,
   conn |-> 0]

EmptyDir == [x \in {} |-> 0]
DirPut(d, k, v) == [x \in (DOMAIN d) \cup {k} |-> IF x = k THEN v ELSE d[x]]
DirDel(d, k) == [x \in (DOMAIN d) \ {k} |-> d[x]]
Range(f) == {f[x] : x \in DOMAIN f}

(***************************************************************************)
(* The metadata store (database.rs): each operator is one SQL statement.   *)
(***************************************************************************)
StoredKeys(rows) == {PackageKeyOf(r) : r \in rows}

\* ToSql for Option<String> that binds None as the empty text
to_sql_none_as_empty(o) ==
  IF is_some(o) THEN [type |-> "TEXT", value |-> unwrap(o)]
  ELSE [type |-> "TEXT", value |-> ""]

\* ToSql for Option<String>: None binds NULL, Some(s) binds the text s
to_sql(o) ==
  IF is_some(o) THEN [type |-> "TEXT", value |-> unwrap(o)]
  ELSE [type |-> "NULL", value |-> ""]

\* FromSql for Option<String>: row.get(i) of a nullable TEXT column
from_sql(v) == IF v.type = "NULL" THEN NoneOpt ELSE Some(v.value)

\* the row the INSERT's params![..] bind, under the AUTOINCREMENT id
params(id, pkg) ==
  [id |-> id, filename |-> pkg.filename, size |-> pkg.size, md5sum |-> pkg.md5sum,
   sha1 |-> pkg.sha1, sha256 |-> pkg.sha256,
   description_md5 |-> to_sql(pkg.description_md5),
   control |-> [package |-> pkg.control.package, version |-> pkg.control.version,
                architecture |-> pkg.control.architecture,
                maintainer |-> pkg.control.maintainer,
                description |-> pkg.control.description,
                optional |-> [f \in OptionalFields |-> to_sql(pkg.control.optional[f])]]]

\* the DebianBinaryPackage the query_row closure builds from a row
from_row(r) ==
  [filename |-> r.filename, size |-> r.size, md5sum |-> r.md5sum,
   sha1 |-> r.sha1, sha256 |-> r.sha256,
   description_md5 |-> from_sql(r.description_md5),
   control |-> [package |-> r.control.package, version |-> r.control.version,
                architecture |-> r.control.architecture,
                maintainer |-> r.control.maintainer,
                description |-> r.control.description,
                optional |-> [f \in OptionalFields |-> from_sql(r.control.optional[f])]]]

\* a plain INSERT into a distributions table without UNIQUE(name, component, architecture)
insert_distribution_no_unique(st, name, dist, component, architecture) ==
  [rows |-> st.rows \cup {[id |-> st.seq + 1, name |-> name, origin |-> dist.origin,
                           label |-> dist.label, version |-> dist.version,
                           codename |-> dist.codename, description |-> dist.description,
                           component |-> component, architecture |-> architecture]},
   seq |-> st.seq + 1]

\* INSERT OR REPLACE INTO distributions, for one (name, component, architecture)
insert_or_replace_distribution(st, name, dist, component, architecture) ==
  LET old == {r \in st.rows : r.name = name /\ r.component = component
                               /\ r.architecture = architecture}
      id == st.seq + 1
      row == [id |-> id, name |-> name, origin |-> dist.origin, label |-> dist.label,
              version |-> dist.version, codename |-> dist.codename,
              description |-> dist.description, component |-> component,
              architecture |-> architecture]
  IN  [rows |-> (st.rows \ old) \cup {row}, seq |-> id]

\* the loop over the architectures that stops after its first round
insert_first_arch_only(st, name, dist, component, i) ==
  IF i > Len(dist.architectures) THEN st
  ELSE insert_or_replace_distribution(st, name, dist, component, dist.architectures[i])

RECURSIVE insert_archs(_, _, _, _, _)
insert_archs(st, name, dist, component, i) ==
  IF i > Len(dist.architectures) THEN st
  ELSE insert_archs(insert_or_replace_distribution(st, name, dist, component,
                                                   dist.architectures[i]),
                    name, dist, component, i + 1)

RECURSIVE insert_components(_, _, _, _)
insert_components(st, name, dist, i) ==
  IF i > Len(dist.components) THEN st
  ELSE insert_components(insert_archs(st, name, dist, dist.components[i], 1),
                         name, dist, i + 1)

\* the orders in which a HashMap with these keys may be iterated
IterOrders(keys) ==
  {o \in [1..Cardinality(keys) -> keys] : \A i, j \in DOMAIN o : o[i] = o[j] => i = j}

\* for (name, dist) in dists, in the order the map iterates
RECURSIVE insert_distributions(_, _, _)
insert_distributions(st, dists, order) ==
  IF order = <<>> THEN st
  ELSE insert_distributions(insert_components(st, Head(order), dists[Head(order)], 1),
                            dists, Tail(order))

\* the SELECT without its "AND architecture = ?"
get_distribution_id_any_architecture(rows, dist) ==
  LET hit == {r \in rows : r.name = dist.name /\ r.component = dist.component}
  IN  IF hit = {} THEN [err |-> Err("QueryGetDistributionID", "QueryReturnedNoRows"), id |-> 0]
      ELSE [err |-> Ok, id |-> (CHOOSE r \in hit : \A q \in hit : r.id <= q.id).id]

\* SELECT id FROM distributions WHERE name = ? AND component = ? AND architecture = ?
get_distribution_id(rows, dist) ==
  LET hit == {r \in rows : r.name = dist.name /\ r.component = dist.component
                           /\ r.architecture = dist.architecture}
  IN  IF hit = {} THEN [err |-> Err("QueryGetDistributionID", "QueryReturnedNoRows"), id |-> 0]
      ELSE [err |-> Ok, id |-> (CHOOSE r \in hit : TRUE).id]

\* get_package_id that maps "no row" to id 0 instead of an error
get_package_id_or_default(rows, package) ==
  LET hit == {r \in rows : PackageKeyOf(r) = package}
  IN  IF hit = {} THEN [err |-> Ok, id |-> 0]
      ELSE [err |-> Ok, id |-> (CHOOSE r \in hit : TRUE).id]

\* SELECT id FROM debian_binary_package WHERE package = ? AND version = ? AND architecture = ?
get_package_id(rows, package) ==
  LET hit == {r \in rows : PackageKeyOf(r) = package}
  IN  IF hit = {} THEN [err |-> Err("QueryGetPackageID", "QueryReturnedNoRows"), id |-> 0]
      ELSE [err |-> Ok, id |-> (CHOOSE r \in hit : TRUE).id]

\* database::get_packages_in_distribution: the keys of the package rows that a link row
\* joins to the distribution row of the slice
get_packages_in_distribution(dists, links, packages, dist) ==
  {PackageKeyOf(r) : r \in {x \in packages :
      \E d \in dists, l \in links :
        /\ d.name = dist.name /\ d.component = dist.component
        /\ d.architecture = dist.architecture
        /\ l.distribution_id = d.id /\ l.package_id = x.id}}

NextRowid(links) ==
  IF links = {} THEN 1
  ELSE (CHOOSE r \in links : \A q \in links : q.rowid <= r.rowid).rowid + 1

LinkRow(links, distribution_id, package_id) ==
  [rowid |-> NextRowid(links), distribution_id |-> distribution_id, package_id |-> package_id]

HasLink(links, distribution_id, package_id) ==
  \E r \in links : r.distribution_id = distribution_id /\ r.package_id = package_id

\* FOREIGN KEY (distribution_id) REFERENCES distributions(id) ON DELETE CASCADE: the
\* link rows left when the distribution rows with these ids are deleted.  SQLite runs
\* the action only on a connection that enforces foreign keys.
on_delete_cascade(links, deleted_ids, foreign_keys) ==
  IF foreign_keys THEN {l \in links : l.distribution_id \notin deleted_ids} ELSE links

\* the INSERT of a link into a table without PRIMARY KEY (distribution_id, package_id)
insert_link_no_primary_key(links, distribution_id, package_id) ==
  [err |-> Ok, links |-> links \cup {LinkRow(links, distribution_id, package_id)}]

\* INSERT INTO distribution_packages (distribution_id, package_id)
insert_package_id_to_distribution_id(links, distribution_id, package_id) ==
  IF HasLink(links, distribution_id, package_id)
  THEN [err |-> Err("InsertPackageIDToDistributionID", "ConstraintViolation"), links |-> links]
  ELSE [err |-> Ok, links |-> links \cup {LinkRow(links, distribution_id, package_id)}]

\* the INSERT written as INSERT OR IGNORE
insert_or_ignore_package(rows, seq, pkg) ==
  IF PackageKeyOf(pkg) \in StoredKeys(rows)
  THEN [err |-> Ok, rows |-> rows, seq |-> seq]
  ELSE [err |-> Ok, rows |-> rows \cup {params(seq + 1, pkg)}, seq |-> seq + 1]

\* the INSERT written as INSERT OR REPLACE, as insert_distributions does
insert_or_replace_package(rows, seq, pkg) ==
  [err |-> Ok,
   rows |-> {r \in rows : PackageKeyOf(r) # PackageKeyOf(pkg)}
            \cup {params(seq + 1, pkg)},
   seq |-> seq + 1]

\* INSERT INTO debian_binary_package (...)
insert_debian_binary_package(rows, seq, pkg) ==
  IF PackageKeyOf(pkg) \in StoredKeys(rows)
  THEN [err |-> Err("CouldNotInsertDebianBinaryPackage", "ConstraintViolation"),
        rows |-> rows, seq |-> seq]
  ELSE [err |-> Ok,
        rows |-> rows \cup {params(seq + 1, pkg)},
        seq |-> seq + 1]

\* the query that answers "no row" with a default record
get_debian_binary_package_or_default(rows, package) ==
  LET hit == {r \in rows : PackageKeyOf(r) = package}
  IN  IF hit = {}
      THEN [err |-> Ok,
            package |-> new_from_control(Ctl(package, Some(""), Some(""), Some("")),
                                         "", "", "", "", 0).package]
      ELSE [err |-> Ok, package |-> Some(from_row(CHOOSE x \in hit : TRUE))]

\* SELECT ... FROM debian_binary_package WHERE package = ?1 AND version = ?2 AND architecture = ?3
get_debian_binary_package(rows, package) ==
  LET hit == {r \in rows : PackageKeyOf(r) = package}
  IN  IF hit = {}
      THEN [err |-> Err("CouldNotGetDebianBinaryPackage", "QueryReturnedNoRows"),
            package |-> NoneOpt]
      ELSE LET r == CHOOSE x \in hit : TRUE
           IN  [err |-> Ok, package |-> Some(from_row(r))]

(***************************************************************************)
(* File system helpers.                                                    *)
(***************************************************************************)
Referenced(up, pl, tk) == Range(up) \cup Range(pl) \cup {tk[q].file : q \in Procs}

\* an inode that no directory entry and no open file refers to holds nothing
Sweep(ino, up, pl, tk) ==
  [i \in Inodes |-> IF i \in Referenced(up, pl, tk) THEN ino[i] ELSE 0]

FreeInode ==
  CHOOSE i \in Inodes \ Referenced(uploads, pool, task) :
    \A j \in Inodes \ Referenced(uploads, pool, task) : i <= j

\* what a request keeps once it has ended
Finish(t, res) ==
  [IdleTask EXCEPT !.op = t.op, !.pc = IF res = Ok THEN "done" ELSE "failed",
                   !.body = t.body,
                   !.existed = t.existed, !.result = Some(res)]

Ended(t) == t.pc \in {"idle", "done", "failed", "panicked"}

\* the handlers are interchangeable: a request takes the first one that is free
FirstFree(p) == \A q \in Procs : Ended(task[q]) => ~(q < p)

BodyKey(b) ==
  IF is_some(Uploads[b].control) /\ is_some(unwrap(Uploads[b].control).architecture)
  THEN Some([name |-> unwrap(Uploads[b].control).package,
             version |-> unwrap(Uploads[b].control).version,
             architecture |-> unwrap(unwrap(Uploads[b].control).architecture)])
  ELSE NoneOpt

(***************************************************************************)
(* handle_upload_package: the ingestion pipeline, one action per step.     *)
(***************************************************************************)
\* POST /v1/packages/upload/:package_name arrives
ReceiveUpload(p, name, max) ==
  /\ ops < max
  /\ Ended(task[p]) /\ FirstFree(p)
  /\ task' = [task EXCEPT ![p] =
       [IdleTask EXCEPT !.op = "upload", !.pc = "validate", !.package_name = name]]
  /\ ops' = ops + 1
  /\ UNCHANGED <<fsvars, dbvars>>

\* the handler that goes on to stream whatever the validation says
ValidateIgnored(p) ==
  /\ task[p].pc = "validate"
  /\ task' = [task EXCEPT ![p] = [@ EXCEPT !.pc = "stream_create"]]
  /\ UNCHANGED <<fsvars, dbvars, ops>>

Validate(p) ==
  /\ task[p].pc = "validate"
  /\ LET v == validate_upload_package_name(task[p].package_name)
     IN  task' = [task EXCEPT ![p] =
           IF v = "Ok" THEN [@ EXCEPT !.pc = "stream_create"]
           ELSE Finish(@, Err("InvalidInput", "Package name is invalid"))]
  /\ UNCHANGED <<fsvars, dbvars, ops>>

\* stream_to_file: tokio::fs::File::create(uploads_dir.join(package_name))
StreamCreate(p) ==
  /\ task[p].pc = "stream_create"
  /\ LET name == task[p].package_name
     IN  IF file_name(name) # Some(name)
         THEN \* the joined path does not name a file that can be created
              /\ task' = [task EXCEPT ![p] = Finish(@, Err("StreamToFile", "io"))]
              /\ UNCHANGED fsvars
         ELSE LET i == IF name \in DOMAIN uploads THEN uploads[name] ELSE FreeInode
                  tk == [task EXCEPT ![p] = [@ EXCEPT !.pc = "stream_copy", !.file = i]]
                  up == DirPut(uploads, name, i)
              IN  /\ task' = tk
                  /\ uploads' = up
                  /\ inode' = Sweep([inode EXCEPT ![i] = 0], up, pool, tk)
                  /\ UNCHANGED <<pool, pool_dirs>>
  /\ UNCHANGED <<dbvars, ops>>

\* stream_to_file: tokio::io::copy of the whole request body b into the open file.
\* existed records whether the key of b was stored when b arrived.
StreamCopy(p, b) ==
  /\ task[p].pc = "stream_copy"
  /\ LET tk == [task EXCEPT ![p] =
                  [@ EXCEPT !.pc = "read_control", !.file = 0, !.body = b,
                            !.existed = is_some(BodyKey(b))
                                        /\ unwrap(BodyKey(b)) \in
                                             StoredKeys(debian_binary_package)]]
     IN  /\ task' = tk
         /\ inode' = Sweep([inode EXCEPT ![task[p].file] = b], uploads, pool, tk)
  /\ UNCHANGED <<uploads, pool, pool_dirs, dbvars, ops>>

\* stream_to_file: tokio::io::copy has written the first bytes of body b
StreamChunk(p, b) ==
  /\ task[p].pc = "stream_copy"
  /\ task[p].body = 0
  /\ LET tk == [task EXCEPT ![p] = [@ EXCEPT !.body = b]]
     IN  /\ task' = tk
         /\ inode' = Sweep([inode EXCEPT ![task[p].file] = -b], uploads, pool, tk)
  /\ UNCHANGED <<uploads, pool, pool_dirs, dbvars, ops>>

\* stream_to_file: the body stream ends in an error (the client is gone)
StreamAbort(p) ==
  /\ task[p].pc = "stream_copy"
  /\ LET tk == [task EXCEPT ![p] = Finish(@, Err("StreamToFile", "io"))]
     IN  /\ task' = tk
         /\ inode' = Sweep(inode, uploads, pool, tk)
  /\ UNCHANGED <<uploads, pool, pool_dirs, dbvars, ops>>

\* DebianBinaryPackage::read_control(&uploaded_path)
ReadControl(p) ==
  /\ task[p].pc = "read_control"
  /\ LET name == task[p].package_name
     IN  IF name \notin DOMAIN uploads
         THEN task' = [task EXCEPT ![p] = Finish(@, Err("CouldNotOpenDebianPackage", "io"))]
         ELSE LET r == read_control(inode[uploads[name]])
              IN  task' = [task EXCEPT ![p] =
                    IF r.err = Ok THEN [@ EXCEPT !.pc = "move", !.control = r.control]
                    ELSE Finish(@, r.err)]
  /\ UNCHANGED <<fsvars, dbvars, ops>>

\* move_package_to_pool that copies the file and leaves the uploaded one behind
MovePackageToPoolByCopy(p) ==
  /\ task[p].pc = "move"
  /\ task[p].package_name \in DOMAIN uploads
  /\ pool_dest_dir(task[p].package_name) # Panic
  /\ LET name == task[p].package_name
         new_deb_path == pool_path(name)
         tk == [task EXCEPT ![p] = [@ EXCEPT !.pc = "md5", !.deb_path = Some(new_deb_path)]]
         i == FreeInode
         pl == DirPut(pool, new_deb_path, i)
     IN  /\ pool_dirs' = pool_dirs \cup {pool_dest_dir(name)}
         /\ pool' = pl
         /\ task' = tk
         /\ inode' = Sweep([inode EXCEPT ![i] = inode[uploads[name]]], uploads, pl, tk)
         /\ UNCHANGED uploads
  /\ UNCHANGED <<dbvars, ops>>

\* DebianBinaryPackage::move_package_to_pool(&uploaded_path, &pool_dir)
MovePackageToPool(p) ==
  /\ task[p].pc = "move"
  /\ LET name == task[p].package_name
         file_name_str == unwrap(file_name(name))
         dest_dir == pool_dest_dir(file_name_str)
         new_deb_path == pool_path(file_name_str)
     IN  IF dest_dir = Panic
         THEN /\ task' = [task EXCEPT ![p] = [Finish(@, Err("panic", "expect")) EXCEPT
                                                !.pc = "panicked"]]
              /\ UNCHANGED fsvars
         ELSE IF name \notin DOMAIN uploads
         THEN \* create_dir_all succeeded, rename found no source
              /\ pool_dirs' = pool_dirs \cup {dest_dir}
              /\ task' = [task EXCEPT ![p] = Finish(@, Err("CouldNotMovePackageToPool", "io"))]
              /\ UNCHANGED <<inode, uploads, pool>>
         ELSE LET tk == [task EXCEPT ![p] =
                           [@ EXCEPT !.pc = "md5", !.deb_path = Some(new_deb_path)]]
                  pl == DirPut(pool, new_deb_path, uploads[name])
                  up == DirDel(uploads, name)
              IN  /\ pool_dirs' = pool_dirs \cup {dest_dir}
                  /\ pool' = pl
                  /\ uploads' = up
                  /\ task' = tk
                  /\ inode' = Sweep(inode, up, pl, tk)
  /\ UNCHANGED <<dbvars, ops>>

\* the bytes a read of the staging file of the request returns, none when it is gone
StagedContent(t) ==
  IF t.package_name \in DOMAIN uploads THEN inode[uploads[t.package_name]] ELSE 0

\* the bytes a read of the placed file returns
PlacedContent(t) == inode[pool[unwrap(t.deb_path)]]

\* calculate_hashes: one pass over the file per digest
HashStep(p, at, next, alg) ==
  /\ task[p].pc = at
  /\ IF unwrap(task[p].deb_path) \notin DOMAIN pool
     THEN task' = [task EXCEPT ![p] = Finish(@, Err("CouldNotCalculateHash", alg))]
     ELSE LET h == Some(calculate_hash(alg, PlacedContent(task[p])))
          IN  task' = [task EXCEPT ![p] =
                IF alg = "MD5" THEN [@ EXCEPT !.pc = next, !.md5 = h]
                ELSE IF alg = "SHA1" THEN [@ EXCEPT !.pc = next, !.sha1 = h]
                ELSE [@ EXCEPT !.pc = next, !.sha256 = h]]
  /\ UNCHANGED <<fsvars, dbvars, ops>>

HashMd5(p) == HashStep(p, "md5", "sha1", "MD5")
HashSha1(p) == HashStep(p, "sha1", "sha256", "SHA1")
HashSha256(p) == HashStep(p, "sha256", "metadata", "SHA256")

\* std::fs::metadata(&deb_path), then DebianBinaryPackage::new_from_control
BuildRecord(p) ==
  /\ task[p].pc = "metadata"
  /\ IF unwrap(task[p].deb_path) \notin DOMAIN pool
     THEN task' = [task EXCEPT ![p] = Finish(@, Err("CouldNotReadMetadata", "io"))]
     ELSE LET t == task[p]
              r == new_from_control(unwrap(t.control), unwrap(t.md5), unwrap(t.sha1),
                                    unwrap(t.sha256), unwrap(t.deb_path),
                                    st_size(PlacedContent(t)))
          IN  task' = [task EXCEPT ![p] =
                IF r.err = Ok THEN [@ EXCEPT !.pc = "insert", !.package = r.package]
                ELSE Finish(@, r.err)]
  /\ UNCHANGED <<fsvars, dbvars, ops>>

\* .map_err(|err| CouldNotAddPackageToDatabase(package.clone(), err))
CouldNotAddPackageToDatabase(err) ==
  IF err = Ok THEN Ok ELSE Err("CouldNotAddPackageToDatabase", err.cause)

\* the handler that answers with success and leaves the insert to a later moment
InsertPackageDetached(p) ==
  /\ task[p].pc = "insert"
  /\ task' = [task EXCEPT ![p] = Finish(@, Ok)]
  /\ UNCHANGED <<fsvars, dbvars, ops>>

\* the insert with the placed file removed again when the insert fails
InsertPackageWithRollback(p) ==
  /\ task[p].pc = "insert"
  /\ LET r == insert_debian_binary_package(debian_binary_package,
                                           sqlite_sequence.debian_binary_package,
                                           unwrap(task[p].package))
         tk == [task EXCEPT ![p] = Finish(@, CouldNotAddPackageToDatabase(r.err))]
         pl == IF r.err = Ok THEN pool ELSE DirDel(pool, unwrap(task[p].deb_path))
     IN  /\ debian_binary_package' = r.rows
         /\ sqlite_sequence' = [sqlite_sequence EXCEPT !.debian_binary_package = r.seq]
         /\ task' = tk
         /\ pool' = pl
         /\ inode' = Sweep(inode, uploads, pl, tk)
  /\ UNCHANGED <<uploads, pool_dirs, distributions, distribution_packages, ops>>

\* database::insert_debian_binary_package, then generate_package_index
InsertPackage(p) ==
  /\ task[p].pc = "insert"
  /\ LET r == insert_debian_binary_package(debian_binary_package,
                                           sqlite_sequence.debian_binary_package,
                                           unwrap(task[p].package))
     IN  /\ debian_binary_package' = r.rows
         /\ sqlite_sequence' = [sqlite_sequence EXCEPT !.debian_binary_package = r.seq]
         /\ task' = [task EXCEPT ![p] = Finish(@, CouldNotAddPackageToDatabase(r.err))]
  /\ UNCHANGED <<fsvars, distributions, distribution_packages, ops>>

(***************************************************************************)
(* handle_add_package_to_distribution: three statements, each on its own   *)
(* connection.                                                             *)
(***************************************************************************)
ReceiveLink(p, package, dist, max) ==
  /\ ops < max
  /\ Ended(task[p]) /\ FirstFree(p)
  /\ task' = [task EXCEPT ![p] =
       [IdleTask EXCEPT !.op = "link", !.pc = "get_distribution_id",
                        !.pkey = Some(package), !.dkey = Some(dist)]]
  /\ ops' = ops + 1
  /\ UNCHANGED <<fsvars, dbvars>>

GetDistributionId(p) ==
  /\ task[p].pc = "get_distribution_id"
  /\ LET r == get_distribution_id(distributions, unwrap(task[p].dkey))
     IN  task' = [task EXCEPT ![p] =
           IF r.err = Ok THEN [@ EXCEPT !.pc = "get_package_id", !.dist_id = r.id]
           ELSE Finish(@, r.err)]
  /\ UNCHANGED <<fsvars, dbvars, ops>>

GetPackageId(p) ==
  /\ task[p].pc = "get_package_id"
  /\ LET r == get_package_id(debian_binary_package, unwrap(task[p].pkey))
     IN  task' = [task EXCEPT ![p] =
           IF r.err = Ok THEN [@ EXCEPT !.pc = "insert_link", !.pkg_id = r.id]
           ELSE Finish(@, r.err)]
  /\ UNCHANGED <<fsvars, dbvars, ops>>

InsertLink(p) ==
  /\ task[p].pc = "insert_link"
  /\ LET r == insert_package_id_to_distribution_id(distribution_packages,
                                                   task[p].dist_id, task[p].pkg_id)
     IN  /\ distribution_packages' = r.links
         /\ task' = [task EXCEPT ![p] = Finish(@, r.err)]
  /\ UNCHANGED <<fsvars, debian_binary_package, distributions, sqlite_sequence, ops>>

(***************************************************************************)
(* The Release file of a suite (release.rs).  A text is a sequence of      *)
(* lines and a line a sequence of strings; a HashMap is its entries and    *)
(* the order in which this instance iterates over them.                    *)
(***************************************************************************)
PUBLISH_PATH == "/tmp/publish"

\* what current_time_rfc2822 may return
Clocks == {"Thu, 01 Jan 1970 00:00:00 +0000", "Fri, 02 Jan 1970 00:00:00 +0000"}

\* the time at which the server started
StartupTime == "Fri, 02 Jan 1970 00:00:00 +0000"

\* HashMap::new()
HashMap_new == [map |-> <<>>, iter |-> <<>>]

\* DebianRelease::new
new(suite, distribution) ==
  [suite |-> suite, components |-> distribution.components,
   version |-> distribution.version, origin |-> distribution.origin,
   label |-> distribution.label, architectures |-> distribution.architectures,
   description |-> distribution.description, codename |-> distribution.codename,
   checksums_md5 |-> HashMap_new, checksums_sha1 |-> HashMap_new,
   checksums_sha256 |-> HashMap_new]

\* [String]::join(sep)
RECURSIVE join(_, _)
join(list, sep) ==
  IF list = <<>> THEN <<>>
  ELSE IF Len(list) = 1 THEN <<list[1]>>
  ELSE <<list[1], sep>> \o join(Tail(list), sep)

\* for (file, checksum) in &checksums: format!(" {} {}\n", checksum, file)
checksum_lines(checksums) ==
  [i \in 1..Len(checksums.iter) |->
     <<" ", checksums.map[checksums.iter[i]], " ", checksums.iter[i]>>]

\* the rendering with each line written as " <file> <checksum>"
generate_release_file_first(self, time) ==
  << <<"Origin: ", self.origin>>, <<"Label: ", self.label>>, <<"Suite: ", self.suite>>,
     <<"Version: ", self.version>>, <<"Codename: ", self.codename>>, <<"Date: ", time>>,
     <<"Architectures: ">> \o join(self.architectures, " "),
     <<"Components: ">> \o join(self.components, " "),
     <<"Description: ", self.description>>, <<"MD5Sum:">> >>
    \o [i \in 1..Len(self.checksums_md5.iter) |->
          <<" ", self.checksums_md5.iter[i], " ",
            self.checksums_md5.map[self.checksums_md5.iter[i]]>>]
    \o << <<"SHA256:">> >>
    \o [i \in 1..Len(self.checksums_sha256.iter) |->
          <<" ", self.checksums_sha256.iter[i], " ",
            self.checksums_sha256.map[self.checksums_sha256.iter[i]]>>]

\* DebianRelease::generate_release_file_contents(&self, time_provider)
generate_release_file_contents(self, time) ==
  << <<"Origin: ", self.origin>>, <<"Label: ", self.label>>, <<"Suite: ", self.suite>>,
     <<"Version: ", self.version>>, <<"Codename: ", self.codename>>, <<"Date: ", time>>,
     <<"Architectures: ">> \o join(self.architectures, " "),
     <<"Components: ">> \o join(self.components, " "),
     <<"Description: ", self.description>>, <<"MD5Sum:">> >>
    \o checksum_lines(self.checksums_md5)
    \o << <<"SHA256:">> >>
    \o checksum_lines(self.checksums_sha256)

\* format!("{}/{}", path, self.suite), then format!("{}/Release", full_path)
release_path(path, suite) == <<path, suite, "Release">>

\* fs::File::create(path) and write_all: the file is created or truncated, then written
FilePut(dir, path, text) ==
  [q \in DOMAIN dir \cup {path} |-> IF q = path THEN text ELSE dir[q]]

\* app(): for (suite, distribution) in &archive.config.dists, release.save_to_file
AppReleases(dists, clock) ==
  [q \in {release_path(PUBLISH_PATH, suite) : suite \in DOMAIN dists} |->
     generate_release_file_contents(new(q[2], dists[q[2]]), clock)]

(***************************************************************************)
(* app(): tables created, the configured distributions inserted, the       *)
(* uploads and pool directories created and empty.                         *)
(***************************************************************************)
NoReply == [op |-> "none", arg |-> <<>>, fault |-> "none", err |-> Ok, value |-> <<>>]

EmptyTable == [rows |-> {}, seq |-> 0]

InitStore ==
  \E order \in IterOrders(DOMAIN ConfigDists) :
    LET st == insert_distributions(EmptyTable, ConfigDists, order)
    IN  /\ distributions = st.rows
        /\ sqlite_sequence = [debian_binary_package |-> 0, distributions |-> st.seq]
        /\ debian_binary_package = {}
        /\ distribution_packages = {}
        /\ config = ConfigDists
        /\ release_dir = AppReleases(ConfigDists, StartupTime)
        /\ reply = NoReply

InitFiles ==
  /\ inode = [i \in Inodes |-> 0]
  /\ uploads = EmptyDir
  /\ pool = EmptyDir
  /\ pool_dirs = {}

Init ==
  /\ task = [p \in Procs |-> IdleTask]
  /\ ops = 0
  /\ InitFiles
  /\ InitStore

Pipeline(p) ==
  \/ Validate(p)
  \/ StreamCreate(p)
  \/ \E b \in Bodies : StreamCopy(p, b)
  \/ StreamAbort(p)
  \/ ReadControl(p)
  \/ MovePackageToPool(p)
  \/ HashMd5(p)
  \/ HashSha1(p)
  \/ HashSha256(p)
  \/ BuildRecord(p)
  \/ InsertPackage(p)

Handler(p, max) ==
  \/ \E name \in UploadNames : ReceiveUpload(p, name, max)
  \/ Pipeline(p)
  \/ \E package \in LinkPackageKeys, dist \in LinkDistKeys :
       ReceiveLink(p, package, dist, max)
  \/ GetDistributionId(p)
  \/ GetPackageId(p)
  \/ InsertLink(p)

\* two handlers serve requests concurrently, their steps interleaved
Next == (\E p \in Procs : Handler(p, MaxOps)) /\ UNCHANGED auxvars

Spec == Init /\ [][Next]_vars

\* the sequential specification: requests arrive one after the other
NextSeq == Handler(1, MaxSeqOps) /\ UNCHANGED auxvars

SpecSeq == Init /\ [][NextSeq]_vars

(***************************************************************************)
(* The file-name specification: one request, received under any name of    *)
(* at most MaxNameLen characters, runs the pipeline alone.                 *)
(***************************************************************************)
\* the files and the table after body 1 was ingested under the file name "h"
InitIngested ==
  LET path == pool_path(<<"h">>)
      pkg == new_from_control(unwrap(Uploads[1].control), calculate_hash("MD5", 1),
                              calculate_hash("SHA1", 1), calculate_hash("SHA256", 1),
                              path, st_size(1)).package
      st == insert_debian_binary_package({}, 0, unwrap(pkg))
      ds == insert_distributions(EmptyTable, ConfigDists, <<"stable">>)
  IN  /\ config = ConfigDists
      /\ release_dir = AppReleases(ConfigDists, StartupTime)
      /\ reply = NoReply
      /\ inode = [i \in Inodes |-> IF i = 1 THEN 1 ELSE 0]
      /\ uploads = EmptyDir
      /\ pool = DirPut(EmptyDir, path, 1)
      /\ pool_dirs = {path.dir}
      /\ distributions = ds.rows
      /\ sqlite_sequence = [debian_binary_package |-> st.seq, distributions |-> ds.seq]
      /\ debian_binary_package = st.rows
      /\ distribution_packages = {}

InitNames ==
  /\ \E name \in AllNames :
       task = [p \in Procs |->
                 IF p = 1
                 THEN [IdleTask EXCEPT !.op = "upload", !.pc = "validate",
                                       !.package_name = name]
                 ELSE IdleTask]
  /\ ops = 1
  /\ \/ InitFiles /\ InitStore
     \/ InitIngested

NextNames == (\E p \in Procs : Pipeline(p)) /\ UNCHANGED auxvars

SpecNames == InitNames /\ [][NextNames]_vars

(***************************************************************************)
(* Properties.                                                             *)
(***************************************************************************)
Conflict == Err("CouldNotAddPackageToDatabase", "ConstraintViolation")

\* a body that is a package with every mandatory field, and its key
Ingestible(b) ==
  /\ b \in Bodies
  /\ Uploads[b].kind = "deb"
  /\ new_from_control(unwrap(Uploads[b].control), 0, 0, 0, 0, 0).err = Ok

RowsOf(k) == {r \in debian_binary_package : PackageKeyOf(r) = k}

\* two uploads of one key, both received in full before either was stored, have both ended
RacedUploads(p, q) ==
  /\ p # q
  /\ task[p].op = "upload" /\ task[q].op = "upload"
  /\ task[p].pc \in {"done", "failed"} /\ task[q].pc \in {"done", "failed"}
  /\ Ingestible(task[p].body) /\ Ingestible(task[q].body)
  /\ BodyKey(task[p].body) = BodyKey(task[q].body)
  /\ ~task[p].existed /\ ~task[q].existed

\* C1: two concurrent ingestions of one (name, version, architecture) end in exactly
\* one success and one uniqueness-conflict failure, with exactly one row for the key.
C1_OneSuccessOneConflict ==
  \A p, q \in Procs :
    RacedUploads(p, q) =>
      /\ Cardinality(RowsOf(unwrap(BodyKey(task[p].body)))) = 1
      /\ \/ task[p].result = Some(Ok) /\ task[q].result = Some(Conflict)
         \/ task[q].result = Some(Ok) /\ task[p].result = Some(Conflict)

\* a step of handler p
Step(p) == task'[p] # task[p]

\* the files under pool_dir with their bytes
PoolView == [path \in DOMAIN pool |-> inode[pool[path]]]

Lookup(k) == get_debian_binary_package(debian_binary_package, k)

\* C2: an ingestion that reaches persistence with a (name, version, architecture)
\* already stored fails with the conflict error, and no step changes the record that
\* lookup returns for a stored key.
C2_ReingestConflictKeepsRecord ==
  [][/\ \A k \in StoredKeys(debian_binary_package) :
          get_debian_binary_package(debian_binary_package', k) = Lookup(k)
     /\ \A p \in Procs :
          (/\ task[p].pc = "insert" /\ Step(p)
           /\ PackageKeyOf(unwrap(task[p].package)) \in StoredKeys(debian_binary_package))
          => /\ task'[p].pc = "failed"
             /\ task'[p].result = Some(Conflict)
             /\ debian_binary_package' = debian_binary_package]_vars

C2_Witness ==
  \E p \in Procs :
    /\ task[p].op = "upload" /\ task[p].result = Some(Conflict) /\ task[p].existed
    /\ task[p].body = 2
    /\ unwrap(Lookup(hello_key).package).md5sum = calculate_hash("MD5", 1)

\* the record lookup returns describes the file now at its pool path
RecordMatchesFile(r) ==
  /\ r.control.package # "" /\ r.control.version # "" /\ r.control.architecture # ""
  /\ r.control.maintainer # "" /\ r.control.description # ""
  /\ r.filename \in DOMAIN pool
  /\ r.size = st_size(PoolView[r.filename])
  /\ r.md5sum = calculate_hash("MD5", PoolView[r.filename])
  /\ r.sha1 = calculate_hash("SHA1", PoolView[r.filename])
  /\ r.sha256 = calculate_hash("SHA256", PoolView[r.filename])

\* C3: lookup(key) after a successful ingest returns a record with its mandatory
\* fields, whose filename is a pool path, and whose size and md5/sha1/sha256 are those
\* of the file now at that path.
C3_LookupMatchesPoolFile ==
  \A k \in StoredKeys(debian_binary_package) :
    /\ Lookup(k).err = Ok
    /\ RecordMatchesFile(unwrap(Lookup(k).package))

\* the pool path the layout rule gives a file name
LayoutPath(n) ==
  IF Len(n) >= 3 /\ SubSeq(n, 1, 3) = <<"l", "i", "b">>
  THEN [dir |-> IF Len(n) >= 4 THEN <<"lib", n[4]>> ELSE <<"lib">>, file |-> n]
  ELSE [dir |-> SubSeq(n, 1, 1), file |-> n]

\* C4: the pool path returned by placement is <pool>/lib/<4th character>/<filename>
\* for a file name starting with "lib" and <pool>/<1st character>/<filename> for any
\* other, and the file is there, whatever the pool and the table hold.
C4_PoolPathIsFunctionOfName ==
  \A p \in Procs :
    is_some(task[p].deb_path) =>
      /\ unwrap(task[p].deb_path) = LayoutPath(task[p].package_name)
      /\ unwrap(task[p].deb_path) \in DOMAIN pool
      /\ unwrap(task[p].deb_path).dir \in pool_dirs

C4_Witness ==
  \E p \in Procs :
    /\ is_some(task[p].deb_path)
    /\ task[p].package_name = <<"l", "i", "b", "h">>
    /\ unwrap(task[p].deb_path).dir = <<"lib", "h">>

\* C5: a successful placement leaves no file at the uploaded path and leaves, at the
\* returned pool path, the bytes the uploaded file held.
C5_PlacementMovesTheFile ==
  [][\A p \in Procs :
       (task[p].pc = "move" /\ task'[p].pc = "md5") =>
         /\ task[p].package_name \notin DOMAIN uploads'
         /\ unwrap(task'[p].deb_path) \in DOMAIN pool'
         /\ inode'[pool'[unwrap(task'[p].deb_path)]] = inode[uploads[task[p].package_name]]
         /\ inode'[pool'[unwrap(task'[p].deb_path)]] \in Contents]_vars

C5_Witness ==
  \E p \in Procs :
    /\ task[p].pc = "md5"
    /\ task[p].package_name \notin DOMAIN uploads
    /\ PoolView[unwrap(task[p].deb_path)] = task[p].body
    /\ task[p].body \in Bodies

\* the archive of body b is one control extraction fails on
Unextractable(b) == b \in Bodies /\ read_control(b).err # Ok

\* C6: placement is a step of a request whose control extraction has succeeded, and
\* no step of an upload whose archive fails control extraction makes a file appear
\* or change under the pool directory.
C6_InvalidUploadNeverReachesPool ==
  [][\A p \in Procs :
       /\ (task[p].pc = "move" /\ Step(p)) => is_some(task[p].control)
       /\ (Step(p) /\ task'[p].op = "upload" /\ Unextractable(task'[p].body)) =>
            /\ PoolView' = PoolView
            /\ pool_dirs' = pool_dirs]_vars

MissingMandatory(c) == new_from_control(c, 0, 0, 0, 0, 0).err # Ok

\* C7: no step of an upload whose file name is invalid or whose control block lacks
\* a mandatory field changes the pool directory or the package table.
C7_RejectedBeforeMutation ==
  [][\A p \in Procs :
       (/\ Step(p) /\ task[p].op = "upload"
        /\ \/ validate_upload_package_name(task[p].package_name) # "Ok"
           \/ is_some(task[p].control) /\ MissingMandatory(unwrap(task[p].control)))
       => /\ PoolView' = PoolView
          /\ pool_dirs' = pool_dirs
          /\ debian_binary_package' = debian_binary_package]_vars

\* the file names of the specification's examples, spelled out
etc_passwd == <<".", ".", "/", "e", "t", "c", "/", "p", "a", "s", "s", "w", "d">>
absolute_etc == <<"/", "e", "t", "c">>
hello_2_10_2_amd64_deb ==
  <<"h", "e", "l", "l", "o", "_", "2", ".", "1", "0", "-", "2", "_",
    "a", "m", "d", "6", "4", ".", "d", "e", "b">>

ExactlyOneNormal(n) == Len(components(n)) = 1 /\ components(n)[1].kind = "Normal"

InvalidName == Err("InvalidInput", "Package name is invalid")

\* C8: a file name is accepted exactly when it is one normal path component
\* ("../etc/passwd", an absolute path and "" are rejected, "hello_2.10-2_amd64.deb" is
\* accepted); a rejected name ends the request with no file written, and only
\* accepted names reach the later steps and the directories.
C8_NameValidation ==
  /\ [](/\ validate_upload_package_name(etc_passwd) = "InvalidInput"
        /\ validate_upload_package_name(absolute_etc) = "InvalidInput"
        /\ validate_upload_package_name(<<>>) = "InvalidInput"
        /\ validate_upload_package_name(hello_2_10_2_amd64_deb) = "Ok"
        /\ \A p \in Procs :
             (task[p].op = "upload" /\ ~Ended(task[p]) /\ task[p].pc # "validate")
               => ExactlyOneNormal(task[p].package_name)
        /\ \A n \in DOMAIN uploads : ExactlyOneNormal(n)
        /\ \A path \in DOMAIN pool : ExactlyOneNormal(path.file))
  /\ [][\A p \in Procs :
          (task[p].pc = "validate" /\ Step(p)) =>
            IF ExactlyOneNormal(task[p].package_name)
            THEN task'[p].pc = "stream_create"
            ELSE /\ task'[p].pc = "failed"
                 /\ task'[p].result = Some(InvalidName)
                 /\ UNCHANGED <<fsvars, dbvars>>]_vars

C8_Witness ==
  \E p \in Procs : task[p].pc = "failed" /\ task[p].result = Some(InvalidName)

DistNotFound == Err("QueryGetDistributionID", "QueryReturnedNoRows")
PackageNotFound == Err("QueryGetPackageID", "QueryReturnedNoRows")
DuplicateLink == Err("InsertPackageIDToDistributionID", "ConstraintViolation")

MaterializedKeys ==
  {DistKey(r.name, r.component, r.architecture) : r \in distributions}

\* C9: linking a package key that is not stored, or a distribution key that is not
\* materialized, fails with that key's not-found error and leaves the link table as
\* it was; every link row joins a distribution row and a package row.
C9_LinkUnknownKeyFails ==
  /\ [](\A l \in distribution_packages :
          /\ \E d \in distributions : d.id = l.distribution_id
          /\ \E r \in debian_binary_package : r.id = l.package_id)
  /\ [][\A p \in Procs :
          (Step(p) /\ task[p].op = "link") =>
            /\ (task[p].pc = "get_distribution_id"
                /\ unwrap(task[p].dkey) \notin MaterializedKeys)
               => /\ task'[p].pc = "failed"
                  /\ task'[p].result = Some(DistNotFound)
                  /\ distribution_packages' = distribution_packages
            /\ (task[p].pc = "get_package_id"
                /\ unwrap(task[p].pkey) \notin StoredKeys(debian_binary_package))
               => /\ task'[p].pc = "failed"
                  /\ task'[p].result = Some(PackageNotFound)
                  /\ distribution_packages' = distribution_packages]_vars

C9_Witness ==
  \E p \in Procs :
    /\ task[p].op = "link" /\ task[p].result = Some(PackageNotFound)
    /\ distribution_packages = {}

\* C10: the link table never holds two rows for one (distribution_id, package_id);
\* linking a linked pair fails with the duplicate-link error and leaves the table as
\* it was.
C10_NoDuplicateLink ==
  /\ [](\A l1, l2 \in distribution_packages :
          (l1.distribution_id = l2.distribution_id /\ l1.package_id = l2.package_id)
            => l1 = l2)
  /\ [][\A p \in Procs :
          (/\ task[p].pc = "insert_link" /\ Step(p)
           /\ HasLink(distribution_packages, task[p].dist_id, task[p].pkg_id))
          => /\ task'[p].pc = "failed"
             /\ task'[p].result = Some(DuplicateLink)
             /\ distribution_packages' = distribution_packages]_vars

\* a duplicate link was refused while one package is linked to two slices
C10_Witness ==
  /\ \E p \in Procs : task[p].result = Some(DuplicateLink)
  /\ \E l1, l2 \in distribution_packages :
       l1.package_id = l2.package_id /\ l1.distribution_id # l2.distribution_id

(***************************************************************************)
(* The distributions specification: the server starts, again and again,    *)
(* on one database file under one configuration, and the published         *)
(* distributions are listed.                                               *)
(***************************************************************************)
RECURSIVE ListsUpTo(_, _)
ListsUpTo(S, n) ==
  IF n = 0 THEN {<<>>}
  ELSE LET L == ListsUpTo(S, n - 1)
       IN  L \cup {Append(l, x) : l \in {t \in L : Len(t) = n - 1}, x \in S}

\* the Distribution the configuration file gives a suite
DistOf(name, components_, architectures_) ==
  [Dist(components_, architectures_) EXCEPT
     !.codename = IF name = "stable" THEN "bookworm" ELSE "sid",
     !.version = IF name = "stable" THEN "12" ELSE "unreleased"]

\* the configurations the server is started under
Configs ==
  {[n \in names |-> DistOf(n, cs, as)] :
     names \in SUBSET {"stable", "unstable"},
     cs \in ListsUpTo({"main", "contrib"}, MaxListLen),
     as \in ListsUpTo({"amd64", "i386"}, MaxListLen)}

\* the rows of a table in rowid order
RECURSIVE ById(_)
ById(rows) ==
  IF rows = {} THEN <<>>
  ELSE LET r == CHOOSE x \in rows : \A y \in rows : x.id <= y.id
       IN  <<r>> \o ById(rows \ {r})

PublishedDistribution(r) ==
  [name |-> r.name, origin |-> r.origin, label |-> r.label, version |-> r.version,
   codename |-> r.codename, description |-> r.description, component |-> r.component,
   architecture |-> r.architecture]

\* SELECT name, origin, label, version, codename, description, component, architecture
\* FROM distributions
get_published_distributions(rows) ==
  LET scan == ById(rows)
  IN  [i \in DOMAIN scan |-> PublishedDistribution(scan[i])]

\* app(): a Release file saved per suite, create_tables, then
\* insert_distributions(&archive.db_conn, &archive.config.dists)
\* foreign_keys: whether the connections of the pool enforce foreign keys.  No
\* PRAGMA foreign_keys is issued on them, so they have the default the SQLite library
\* of the build was compiled with.
Startup(order, clock, foreign_keys) ==
  /\ ops < MaxStarts
  /\ release_dir' = AppReleases(config, clock)
  /\ LET st == insert_distributions([rows |-> distributions,
                                     seq |-> sqlite_sequence.distributions], config, order)
     IN  /\ distributions' = st.rows
         /\ sqlite_sequence' = [sqlite_sequence EXCEPT !.distributions = st.seq]
         /\ distribution_packages' =
              on_delete_cascade(distribution_packages,
                                {r.id : r \in distributions \ st.rows}, foreign_keys)
  /\ ops' = ops + 1
  /\ reply' = [NoReply EXCEPT !.op = "insert_distributions"]
  /\ UNCHANGED <<task, fsvars, debian_binary_package, config>>

\* handle_get_published_distributions
HandleGetPublishedDistributions ==
  /\ reply' = [NoReply EXCEPT !.op = "get_published_distributions",
                              !.value = get_published_distributions(distributions)]
  /\ UNCHANGED <<task, fsvars, dbvars, ops, config, release_dir>>

InitDists ==
  /\ config \in Configs
  /\ task = [p \in Procs |-> IdleTask]
  /\ ops = 0
  /\ InitFiles
  /\ distributions = {}
  /\ debian_binary_package = {}
  /\ distribution_packages = {}
  /\ sqlite_sequence = [debian_binary_package |-> 0, distributions |-> 0]
  /\ release_dir = <<>>
  /\ reply = NoReply

NextDists ==
  \/ \E order \in IterOrders(DOMAIN config), clock \in Clocks, foreign_keys \in BOOLEAN :
       Startup(order, clock, foreign_keys)
  \/ HandleGetPublishedDistributions

SpecDists == InitDists /\ [][NextDists]_vars

\* the slices of a configuration, with the descriptive fields of their suite
Expansion(dists) ==
  UNION {{[name |-> n, origin |-> dists[n].origin, label |-> dists[n].label,
           version |-> dists[n].version, codename |-> dists[n].codename,
           description |-> dists[n].description, component |-> c, architecture |-> a] :
            c \in Range(dists[n].components), a \in Range(dists[n].architectures)} :
         n \in DOMAIN dists}

Slices(rows) == {PublishedDistribution(r) : r \in rows}

\* C11: a further run of insert_distributions under the same configuration leaves the
\* slices and their descriptive fields as the run before left them; no two rows ever
\* share a (name, component, architecture), and every row is a slice of the
\* configuration.
C11_UpsertIdempotent ==
  /\ [](/\ \A r1, r2 \in distributions :
             (r1.name = r2.name /\ r1.component = r2.component
              /\ r1.architecture = r2.architecture) => r1 = r2
        /\ \A r \in distributions :
             /\ r.name \in DOMAIN config
             /\ r.component \in Range(config[r.name].components)
             /\ r.architecture \in Range(config[r.name].architectures))
  /\ [][(ops >= 1 /\ ops' = ops + 1) => Slices(distributions') = Slices(distributions)]_vars

\* the second run has replaced four rows
C11_Witness ==
  /\ ops = 2
  /\ Cardinality(distributions) = 4
  /\ \A r \in distributions : r.id > 4

\* C12: once insert_distributions has run on the empty store, the list of published
\* distributions holds one row, with the suite's descriptive fields, for each
\* (name, component, architecture) of the configuration's expansion, and nothing else.
C12_PublishedIsExpansion ==
  (reply.op = "get_published_distributions" /\ ops >= 1) =>
     /\ Range(reply.value) = Expansion(config)
     /\ \A i, j \in DOMAIN reply.value : reply.value[i] = reply.value[j] => i = j

\* two suites of two components and one architecture, one component named twice
C12_Witness ==
  /\ reply.op = "get_published_distributions" /\ ops = 1
  /\ DOMAIN config = {"stable", "unstable"}
  /\ config["stable"].components = <<"main", "main">>
  /\ Len(reply.value) = 4

\* what handle_get_packages_in_distribution answers for a slice
PackagesIn(k) ==
  get_packages_in_distribution(distributions, distribution_packages,
                               debian_binary_package, k)

Faults == {"none", "pool", "busy"}

CouldNotAquirePoolLock == Err("CouldNotAquirePoolLock", "r2d2::Error")

\* the records callers insert: which optional fields are present, and their value
PresenceSets ==
  {{}, OptionalFields, {"Source", "Homepage"}, OptionalFields \ {"Built-Using"}}

Record(k, present, v, dmd5) ==
  LET ctl == [FullCtl(k) EXCEPT
                !.fields = [f \in OptionalFields |->
                              IF f \in present THEN Some(v) ELSE NoneOpt]]
      pkg == unwrap(new_from_control(ctl, calculate_hash("MD5", 1),
                                     calculate_hash("SHA1", 1),
                                     calculate_hash("SHA256", 1),
                                     pool_path(hello_deb), st_size(1)).package)
  IN  [pkg EXCEPT !.description_md5 = dmd5]

\* description_md5 is absent when no optional field is present, and has their value
\* otherwise
Records ==
  {Record(k, present, v, IF present = {} THEN NoneOpt ELSE Some(v)) :
     k \in {hello_key, libsqlite0_key}, present \in PresenceSets, v \in {"", "text"}}

\* the keys callers look up: two that get stored and one that never is
LookupKeys ==
  {hello_key, libsqlite0_key,
   [name |-> "hello", version |-> "2.10-3", architecture |-> "amd64"]}

\* database::insert_debian_binary_package(&db_conn, &pkg)
InsertDebianBinaryPackage(pkg, fault) ==
  /\ ops < MaxCalls
  /\ LET r == IF fault = "pool"
              THEN [err |-> CouldNotAquirePoolLock, rows |-> debian_binary_package,
                    seq |-> sqlite_sequence.debian_binary_package]
              ELSE IF fault = "busy"
              THEN [err |-> Err("CouldNotInsertDebianBinaryPackage", "DatabaseBusy"),
                    rows |-> debian_binary_package,
                    seq |-> sqlite_sequence.debian_binary_package]
              ELSE insert_debian_binary_package(debian_binary_package,
                                                sqlite_sequence.debian_binary_package, pkg)
     IN  /\ debian_binary_package' = r.rows
         /\ sqlite_sequence' = [sqlite_sequence EXCEPT !.debian_binary_package = r.seq]
         /\ reply' = [NoReply EXCEPT !.op = "insert_debian_binary_package",
                                     !.arg = pkg, !.fault = fault, !.err = r.err]
  /\ ops' = ops + 1
  /\ UNCHANGED <<task, fsvars, distributions, distribution_packages, config, release_dir>>

\* handle_get_package_name_version_arch: database::get_debian_binary_package
HandleGetPackage(key, fault) ==
  /\ LET r == IF fault = "pool"
              THEN [err |-> CouldNotAquirePoolLock, package |-> NoneOpt]
              ELSE IF fault = "busy"
              THEN [err |-> Err("CouldNotGetDebianBinaryPackage", "DatabaseBusy"),
                    package |-> NoneOpt]
              ELSE get_debian_binary_package(debian_binary_package, key)
     IN  reply' = [NoReply EXCEPT !.op = "get_debian_binary_package", !.arg = key,
                                  !.fault = fault, !.err = r.err, !.value = r.package]
  /\ UNCHANGED <<task, fsvars, dbvars, ops, config, release_dir>>

InitStoreCalls ==
  /\ task = [p \in Procs |-> IdleTask]
  /\ ops = 0
  /\ InitFiles
  /\ InitStore

NextStore ==
  \/ \E pkg \in Records, fault \in Faults : InsertDebianBinaryPackage(pkg, fault)
  \/ \E key \in LookupKeys, fault \in Faults : HandleGetPackage(key, fault)

SpecStore == InitStoreCalls /\ [][NextStore]_vars

InsertCall == reply'.op = "insert_debian_binary_package" /\ ops' = ops + 1
GetCall == reply'.op = "get_debian_binary_package" /\ reply' # reply

\* C14: the record a lookup returns for a key is the record whose insertion succeeded,
\* equal in every field: an optional field absent at insertion is absent, a present
\* one (the empty text included) has its value.
C14_LookupReturnsInserted ==
  [][/\ (InsertCall /\ reply'.err = Ok) =>
          get_debian_binary_package(debian_binary_package', PackageKeyOf(reply'.arg))
            = [err |-> Ok, package |-> Some(reply'.arg)]
     /\ \A k \in StoredKeys(debian_binary_package) :
          get_debian_binary_package(debian_binary_package', k) = Lookup(k)
     /\ (GetCall /\ reply'.fault = "none") =>
          /\ reply'.err = Lookup(reply'.arg).err
          /\ reply'.value = Lookup(reply'.arg).package]_vars

\* a lookup returned a record with absent fields and present but empty ones
C14_Witness ==
  /\ reply.op = "get_debian_binary_package" /\ reply.err = Ok
  /\ \E r \in Records :
       /\ reply.value = Some(r)
       /\ r.control.optional["Built-Using"] = NoneOpt
       /\ r.control.optional["Source"] = Some("")
       /\ r.description_md5 = Some("")

DbConflict == Err("CouldNotInsertDebianBinaryPackage", "ConstraintViolation")

\* C15: an insert reports the conflict error exactly when its key is already stored
\* (and its connection did not fail), so the error tells a conflict from the other
\* failures of the insert; an insert on a stored key leaves the table as it was.
C15_ConflictIsDistinct ==
  [][InsertCall =>
       LET k == PackageKeyOf(reply'.arg)
       IN  /\ (reply'.err = DbConflict)
               <=> (k \in StoredKeys(debian_binary_package) /\ reply'.fault = "none")
           /\ k \in StoredKeys(debian_binary_package)
                => debian_binary_package' = debian_binary_package]_vars

\* a record that differs from the stored one of its key was refused
C15_Witness ==
  /\ reply.op = "insert_debian_binary_package" /\ reply.err = DbConflict
  /\ Lookup(PackageKeyOf(reply.arg)).package # Some(reply.arg)

NotFound == Err("CouldNotGetDebianBinaryPackage", "QueryReturnedNoRows")

\* C16: a lookup reports the not-found error exactly when its key is not stored (and
\* its connection did not fail); the error differs from the conflict error and from
\* the resource errors, and a lookup changes neither the tables nor the files.
C16_NotFoundIsDistinct ==
  /\ [](NotFound \notin {DbConflict, Conflict, CouldNotAquirePoolLock,
                         Err("CouldNotGetDebianBinaryPackage", "DatabaseBusy")})
  /\ [][GetCall =>
          /\ (reply'.err = NotFound)
               <=> (reply'.arg \notin StoredKeys(debian_binary_package)
                    /\ reply'.fault = "none")
          /\ reply'.err = NotFound => reply'.value = NoneOpt
          /\ UNCHANGED <<dbvars, fsvars>>]_vars

\* a key that was never stored is looked up while another key is stored
C16_Witness ==
  /\ reply.op = "get_debian_binary_package" /\ reply.err = NotFound
  /\ reply.arg \notin StoredKeys(debian_binary_package)
  /\ debian_binary_package # {}

(***************************************************************************)
(* The index stanza: DebianBinaryPackage::generate_package_index.  Texts   *)
(* are sequences of characters, and so is the rendered stanza; the name of *)
(* a field and the ": " after it are one character each.                   *)
(***************************************************************************)
Chars == {"a", "\n"}

Texts == UNION {[1..n -> Chars] : n \in 0..MaxTextLen}

IndexOf(s, c) == CHOOSE i \in 1..Len(s) : s[i] = c /\ \A j \in 1..(i - 1) : s[j] # c

\* str::split('\n'): the lines of a text, at least one
RECURSIVE split(_)
split(text) ==
  IF \A i \in 1..Len(text) : text[i] # "\n"
  THEN <<text>>
  ELSE LET i == IndexOf(text, "\n")
       IN  <<SubSeq(text, 1, i - 1)>> \o split(SubSeq(text, i + 1, Len(text)))

\* for (index, line) in lines: the first line after the format, the others after a space
RECURSIVE write_lines(_, _, _)
write_lines(format, lines, index) ==
  IF index > Len(lines) THEN <<>>
  ELSE (IF index = 1
        THEN <<format, ": ">> \o lines[index] \o <<"\n">>
        ELSE <<" ">> \o lines[index] \o <<"\n">>)
         \o write_lines(format, lines, index + 1)

\* the macro with the text written as it is
write_without_indent(output, format, text) ==
  output \o <<format, ": ">> \o text \o <<"\n">>

\* write_with_debian_format!(output, "<format>: {}", text)
write_with_debian_format(output, format, text) ==
  output \o write_lines(format, split(text), 1)

\* the field written whether or not it is present
write_or_empty(output, format, field) ==
  write_with_debian_format(output, format, IF is_some(field) THEN unwrap(field) ELSE <<>>)

\* if let Some(ref field) = ... { write_with_debian_format!(output, format, field)?; }
if_let_some(output, format, field) ==
  IF is_some(field) THEN write_with_debian_format(output, format, unwrap(field)) ELSE output

Digit == <<"0", "1", "2", "3", "4", "5", "6", "7", "8", "9">>

\* Display for u64
RECURSIVE to_string(_)
to_string(n) ==
  IF n < 10 THEN <<Digit[n + 1]>> ELSE to_string(n \div 10) \o <<Digit[(n % 10) + 1]>>

generate_package_index(pkg) ==
  LET c   == pkg.control
      o1  == write_with_debian_format(<<>>, "Package", c.package)
      o2  == if_let_some(o1, "Source", c.optional["Source"])
      o3  == write_with_debian_format(o2, "Version", c.version)
      o4  == if_let_some(o3, "Section", c.optional["Section"])
      o5  == if_let_some(o4, "Priority", c.optional["Priority"])
      o6  == write_with_debian_format(o5, "Architecture", c.architecture)
      o7  == if_let_some(o6, "Essential", c.optional["Essential"])
      o8  == write_with_debian_format(o7, "Filename", pkg.filename)
      o9  == o8 \o <<"Size", ": ">> \o to_string(pkg.size) \o <<"\n">>
      o10 == write_with_debian_format(o9, "MD5sum", pkg.md5sum)
      o11 == write_with_debian_format(o10, "SHA1", pkg.sha1)
      o12 == write_with_debian_format(o11, "SHA256", pkg.sha256)
      o13 == if_let_some(o12, "Description-md5", pkg.description_md5)
      o14 == write_with_debian_format(o13, "Maintainer", c.maintainer)
      o15 == write_with_debian_format(o14, "Description", c.description)
      o16 == if_let_some(o15, "Homepage", c.optional["Homepage"])
      o17 == if_let_some(o16, "Depends", c.optional["Depends"])
      o18 == if_let_some(o17, "Recommends", c.optional["Recommends"])
      o19 == if_let_some(o18, "Suggests", c.optional["Suggests"])
      o20 == if_let_some(o19, "Enhances", c.optional["Enhances"])
      o21 == if_let_some(o20, "Pre-Depends", c.optional["Pre-Depends"])
      o22 == if_let_some(o21, "Breaks", c.optional["Breaks"])
      o23 == if_let_some(o22, "Conflicts", c.optional["Conflicts"])
      o24 == if_let_some(o23, "Provides", c.optional["Provides"])
      o25 == if_let_some(o24, "Replaces", c.optional["Replaces"])
      o26 == if_let_some(o25, "Installed-Size", c.optional["Installed-Size"])
      o27 == if_let_some(o26, "Built-Using", c.optional["Built-Using"])
  IN  o27

\* the String fields of DebianBinaryPackage and DebianBinaryControl, and the Option ones
MandatoryTexts ==
  {"Package", "Version", "Architecture", "Filename", "MD5sum", "SHA1", "SHA256",
   "Maintainer", "Description"}

OptionalTexts == OptionalFields \cup {"Description-md5"}

\* a record of the given field values
IndexRecord(vals, size) ==
  [filename |-> unwrap(vals["Filename"]), size |-> size,
   md5sum |-> unwrap(vals["MD5sum"]), sha1 |-> unwrap(vals["SHA1"]),
   sha256 |-> unwrap(vals["SHA256"]), description_md5 |-> vals["Description-md5"],
   control |-> [package |-> unwrap(vals["Package"]), version |-> unwrap(vals["Version"]),
                architecture |-> unwrap(vals["Architecture"]),
                maintainer |-> unwrap(vals["Maintainer"]),
                description |-> unwrap(vals["Description"]),
                optional |-> [f \in OptionalFields |-> vals[f]]]]

Values(present, text, f, t) ==
  [l \in MandatoryTexts \cup OptionalTexts |->
     IF l = f THEN Some(t)
     ELSE IF l \in MandatoryTexts \cup present THEN Some(text) ELSE NoneOpt]

\* the records rendered: every combination of present optional fields with one-line
\* values; every field in turn with every text; every present field with every text
InitRecord ==
  \/ \E present \in SUBSET OptionalTexts :
       reply = [NoReply EXCEPT !.arg = IndexRecord(Values(present, <<"a">>, "Package", <<"a">>), 5)]
  \/ \E present \in {{}, OptionalTexts}, f \in MandatoryTexts \cup OptionalTexts,
        t \in Texts :
       reply = [NoReply EXCEPT !.arg = IndexRecord(Values(present, <<"a">>, f, t), 5)]
  \/ \E present \in {{}, {"Depends", "Built-Using"}, OptionalTexts}, t \in Texts,
        size \in {0, 12, 340} :
       reply = [NoReply EXCEPT !.arg = IndexRecord(Values(present, t, "Package", t), size)]

GeneratePackageIndex ==
  /\ reply.op = "none"
  /\ reply' = [reply EXCEPT !.op = "generate_package_index",
                            !.value = generate_package_index(reply.arg)]
  /\ UNCHANGED <<task, fsvars, dbvars, ops, config, release_dir>>

InitIndex ==
  /\ task = [p \in Procs |-> IdleTask]
  /\ ops = 0
  /\ InitFiles
  /\ LET st == insert_distributions(EmptyTable, ConfigDists, <<"stable">>)
     IN  /\ distributions = st.rows
         /\ sqlite_sequence = [debian_binary_package |-> 0, distributions |-> st.seq]
  /\ debian_binary_package = {}
  /\ distribution_packages = {}
  /\ config = ConfigDists
  /\ release_dir = AppReleases(ConfigDists, StartupTime)
  /\ InitRecord

NextIndex == GeneratePackageIndex

SpecIndex == InitIndex /\ [][NextIndex]_vars

CanonicalOrder ==
  <<"Package", "Source", "Version", "Section", "Priority", "Architecture", "Essential",
    "Filename", "Size", "MD5sum", "SHA1", "SHA256", "Description-md5", "Maintainer",
    "Description", "Homepage", "Depends", "Recommends", "Suggests", "Enhances",
    "Pre-Depends", "Breaks", "Conflicts", "Provides", "Replaces", "Installed-Size",
    "Built-Using">>

\* the value a record has for a field name, if any
FieldValue(pkg, name) ==
  CASE name = "Package" -> Some(pkg.control.package)
    [] name = "Version" -> Some(pkg.control.version)
    [] name = "Architecture" -> Some(pkg.control.architecture)
    [] name = "Filename" -> Some(pkg.filename)
    [] name = "Size" -> Some(to_string(pkg.size))
    [] name = "MD5sum" -> Some(pkg.md5sum)
    [] name = "SHA1" -> Some(pkg.sha1)
    [] name = "SHA256" -> Some(pkg.sha256)
    [] name = "Description-md5" -> pkg.description_md5
    [] name = "Maintainer" -> Some(pkg.control.maintainer)
    [] name = "Description" -> Some(pkg.control.description)
    [] OTHER -> pkg.control.optional[name]

IsFieldName(c) == c \in Range(CanonicalOrder)

RECURSIVE Present(_, _)
Present(pkg, order) ==
  IF order = <<>> THEN <<>>
  ELSE (IF is_some(FieldValue(pkg, Head(order))) THEN <<Head(order)>> ELSE <<>>)
         \o Present(pkg, Tail(order))

Rendered == reply.op = "generate_package_index"

\* C17: the field names of the rendered stanza are the canonical order restricted to
\* the mandatory fields and the optional fields the record has: each of those once,
\* in that order, and no line for an absent optional field.
C17_FieldsInCanonicalOrder ==
  Rendered =>
    /\ SelectSeq(reply.value, IsFieldName) = Present(reply.arg, CanonicalOrder)
    /\ \A name \in MandatoryTexts \cup {"Size"} : name \in Range(reply.value)
    /\ \A name \in OptionalTexts :
         name \in Range(reply.value) <=> is_some(FieldValue(reply.arg, name))

\* a stanza of a record with some optional fields present and others, Built-Using
\* among them, absent
C17_Witness ==
  /\ Rendered
  /\ reply.arg.control.optional["Built-Using"] = NoneOpt
  /\ reply.arg.control.optional["Essential"] = NoneOpt
  /\ is_some(reply.arg.control.optional["Source"])
  /\ is_some(reply.arg.control.optional["Replaces"])
  /\ is_some(reply.arg.description_md5)

\* a text with one space put after each of its line breaks
RECURSIVE Folded(_)
Folded(text) ==
  IF text = <<>> THEN <<>>
  ELSE (IF Head(text) = "\n" THEN <<"\n", " ">> ELSE <<Head(text)>>) \o Folded(Tail(text))

RECURSIVE Stanza(_, _)
Stanza(pkg, order) ==
  IF order = <<>> THEN <<>>
  ELSE LET v == FieldValue(pkg, Head(order))
       IN  (IF is_some(v) THEN <<Head(order), ": ">> \o Folded(unwrap(v)) \o <<"\n">>
            ELSE <<>>)
             \o Stanza(pkg, Tail(order))

\* C18: every field of the stanza is its name, ": ", and its value with exactly one
\* space after each line break of the value, ended by a line break; a two-line
\* description renders as "Description: <line1>\n <line2>\n".
C18_EveryValueFolded ==
  Rendered => reply.value = Stanza(reply.arg, CanonicalOrder)

\* a stanza of a record whose description and Depends are both two lines
C18_Witness ==
  /\ Rendered
  /\ reply.arg.control.description = <<"a", "\n", "a">>
  /\ reply.arg.control.optional["Depends"] = Some(<<"a", "\n", "a">>)

(***************************************************************************)
(* The release specification: two DebianRelease values, built by new and   *)
(* with checksum maps filled in, are rendered and saved.                   *)
(***************************************************************************)
IndexFiles == {"main/binary-amd64/Packages", "main/binary-i386/Packages"}

Digest ==
  [algorithm \in {"MD5", "SHA1", "SHA256"} |->
     [f \in IndexFiles |->
        IF f = "main/binary-amd64/Packages"
        THEN (CASE algorithm = "MD5" -> "0f343b09"
                [] algorithm = "SHA1" -> "8e5bd1a4"
                [] algorithm = "SHA256" -> "5c3f1a77")
        ELSE (CASE algorithm = "MD5" -> "d41d8cd9"
                [] algorithm = "SHA1" -> "da39a3ee"
                [] algorithm = "SHA256" -> "e3b0c442")]]

\* the maps a caller may have filled in: no entry, one, two, iterated in any order
HashMaps(algorithm) ==
  {[map |-> [f \in files |-> Digest[algorithm][f]], iter |-> order] :
     files \in {{}, {"main/binary-i386/Packages"}, IndexFiles},
     order \in IterOrders(IndexFiles) \cup IterOrders({"main/binary-i386/Packages"})
               \cup {<<>>}}

WellFormed(h) == Range(h.iter) = DOMAIN h.map /\ Len(h.iter) = Cardinality(DOMAIN h.map)

ReleaseDists ==
  {Dist(<<"main">>, <<>>), Dist(<<"main", "contrib">>, <<"arm64", "riscv">>)}

Releases ==
  {[new(suite, dist) EXCEPT !.checksums_md5 = md5, !.checksums_sha256 = sha256,
                            !.checksums_sha1 = sha1] :
     suite \in {"stable", "experimental"}, dist \in ReleaseDists,
     md5 \in {h \in HashMaps("MD5") : WellFormed(h)},
     sha256 \in {h \in HashMaps("SHA256") : WellFormed(h)},
     sha1 \in {h \in HashMaps("SHA1") : WellFormed(h) /\ Len(h.iter) < 2}}

\* the entries of a map, whatever its iteration order
Content(h) == h.map

\* equal as inputs: the same fields and the same entries in the same maps
SameInputs(r1, r2) ==
  /\ [r1 EXCEPT !.checksums_md5 = HashMap_new, !.checksums_sha1 = HashMap_new,
                !.checksums_sha256 = HashMap_new]
       = [r2 EXCEPT !.checksums_md5 = HashMap_new, !.checksums_sha1 = HashMap_new,
                    !.checksums_sha256 = HashMap_new]
  /\ Content(r1.checksums_md5) = Content(r2.checksums_md5)
  /\ Content(r1.checksums_sha1) = Content(r2.checksums_sha1)
  /\ Content(r1.checksums_sha256) = Content(r2.checksums_sha256)

NotRendered == [clock |-> "", text |-> <<>>]

\* release.generate_release_file_contents(&time_provider), on the i-th release
GenerateReleaseFileContents(i, clock) ==
  /\ reply' = [reply EXCEPT
                 !.op = "generate_release_file_contents", !.err = Ok,
                 !.value[i] = [clock |-> clock,
                               text |-> generate_release_file_contents(reply.arg[i], clock)]]
  /\ UNCHANGED <<task, fsvars, dbvars, ops, config, release_dir>>

\* release.save_release_to_file(path, &time_provider), on the i-th release
SaveReleaseToFile(i, clock, fault) ==
  IF fault = "create_dir_all"
  THEN /\ reply' = [reply EXCEPT !.op = "save_release_to_file",
                                 !.err = Err("io::Error", "create_dir_all")]
       /\ UNCHANGED <<task, fsvars, dbvars, ops, config, release_dir>>
  ELSE LET contents == generate_release_file_contents(reply.arg[i], clock)
       IN  /\ release_dir' = FilePut(release_dir,
                                     release_path(PUBLISH_PATH, reply.arg[i].suite), contents)
           /\ reply' = [reply EXCEPT !.op = "save_release_to_file", !.err = Ok,
                                     !.value[i] = [clock |-> clock, text |-> contents]]
           /\ UNCHANGED <<task, fsvars, dbvars, ops, config>>

InitRelease ==
  /\ task = [p \in Procs |-> IdleTask]
  /\ ops = 0
  /\ InitFiles
  /\ LET st == insert_distributions(EmptyTable, ConfigDists, <<"stable">>)
     IN  /\ distributions = st.rows
         /\ sqlite_sequence = [debian_binary_package |-> 0, distributions |-> st.seq]
  /\ debian_binary_package = {}
  /\ distribution_packages = {}
  /\ config = ConfigDists
  /\ release_dir = AppReleases(ConfigDists, StartupTime)
  /\ \E r1 \in Releases, r2 \in Releases :
       /\ \/ SameInputs(r1, r2)
          \/ r2 = [r1 EXCEPT !.suite = "stable"]
       /\ reply = [NoReply EXCEPT !.arg = <<r1, r2>>,
                                  !.value = <<NotRendered, NotRendered>>]

NextRelease ==
  \/ \E i \in 1..2, clock \in Clocks : GenerateReleaseFileContents(i, clock)
  \/ \E i \in 1..2, clock \in Clocks, fault \in {"none", "create_dir_all"} :
       SaveReleaseToFile(i, clock, fault)

SpecRelease == InitRelease /\ [][NextRelease]_vars

IsRendered(i) == reply.value[i] # NotRendered

\* C19: two renderings made with the same clock value of releases that are equal as
\* inputs are the same text, line for line.
C19_RenderingDeterministic ==
  (IsRendered(1) /\ IsRendered(2) /\ SameInputs(reply.arg[1], reply.arg[2])
     /\ reply.value[1].clock = reply.value[2].clock)
    => reply.value[1].text = reply.value[2].text

\* the strings of a list with one space between each two
SpaceSeparated(list) ==
  [i \in 1..(IF list = <<>> THEN 0 ELSE 2 * Len(list) - 1) |->
     IF i % 2 = 1 THEN list[(i + 1) \div 2] ELSE " "]

\* the lines " <hex-digest> <relative-path>" of the entries of a map
SectionLines(h) == {<<" ", h.map[f], " ", f>> : f \in DOMAIN h.map}

IsManifest(text, r, clock) ==
  LET n == Cardinality(DOMAIN r.checksums_md5.map)
      m == Cardinality(DOMAIN r.checksums_sha256.map)
  IN  /\ Len(text) = 9 + 1 + n + 1 + m
      /\ SubSeq(text, 1, 9) =
           << <<"Origin: ", r.origin>>, <<"Label: ", r.label>>, <<"Suite: ", r.suite>>,
              <<"Version: ", r.version>>, <<"Codename: ", r.codename>>,
              <<"Date: ", clock>>,
              <<"Architectures: ">> \o SpaceSeparated(r.architectures),
              <<"Components: ">> \o SpaceSeparated(r.components),
              <<"Description: ", r.description>> >>
      /\ text[10] = <<"MD5Sum:">>
      /\ {text[10 + k] : k \in 1..n} = SectionLines(r.checksums_md5)
      /\ text[11 + n] = <<"SHA256:">>
      /\ {text[11 + n + k] : k \in 1..m} = SectionLines(r.checksums_sha256)

\* C20: a rendering is the nine suite lines in order, with the date of the clock it
\* was given, then "MD5Sum:" and one line per entry of the MD5 map, then "SHA256:" and
\* one line per entry of the SHA256 map; a save changes the files under the root by
\* writing that text, and nothing else, to <root>/<suite>/Release.
C20_ManifestFormat ==
  /\ [](\A i \in 1..2 :
          IsRendered(i) => IsManifest(reply.value[i].text, reply.arg[i], reply.value[i].clock))
  /\ [][release_dir' # release_dir \/ (reply'.op = "save_release_to_file" /\ reply'.err = Ok)
          => \E i \in 1..2 :
               /\ IsManifest(reply'.value[i].text, reply.arg[i], reply'.value[i].clock)
               /\ release_dir' = FilePut(release_dir,
                                         <<PUBLISH_PATH, reply.arg[i].suite, "Release">>,
                                         reply'.value[i].text)]_vars

\* a release with two entries in each section was saved over the file of its suite
C20_Witness ==
  /\ reply.op = "save_release_to_file" /\ reply.err = Ok
  /\ Cardinality(DOMAIN reply.arg[2].checksums_md5.map) = 2
  /\ Cardinality(DOMAIN reply.arg[2].checksums_sha256.map) = 2
  /\ reply.arg[2].suite = "stable"
  /\ reply.arg[2].architectures = <<"arm64", "riscv">>
  /\ IsRendered(2)
  /\ release_dir[<<PUBLISH_PATH, "stable", "Release">>] = reply.value[2].text
  /\ DOMAIN release_dir = {<<PUBLISH_PATH, "stable", "Release">>,
                           <<PUBLISH_PATH, "experimental", "Release">>}

(***************************************************************************)
(* The record specification: the end of process(), from new_from_control   *)
(* to insert_debian_binary_package, on any control block.                  *)
(***************************************************************************)
\* the control blocks: each of Architecture, Maintainer, long description there or not
ControlsOf(k) ==
  {[Ctl(k, arch, maint, descr) EXCEPT !.fields = fields] :
     arch \in {NoneOpt, Some(k.architecture)},
     maint \in {NoneOpt, Some("maintainer")},
     descr \in {NoneOpt, Some("description")},
     fields \in {NoFields, ControlFields(k)}}

Controls == ControlsOf(hello_key) \cup ControlsOf(libsqlite0_key)

\* process(): new_from_control(&control, ..)?, then insert_debian_binary_package(..)?
ProcessRecord(control, content) ==
  /\ ops < MaxBuilds
  /\ LET b == new_from_control(control, calculate_hash("MD5", content),
                               calculate_hash("SHA1", content),
                               calculate_hash("SHA256", content),
                               pool_path(hello_deb), st_size(content))
         r == IF b.err # Ok
              THEN [err |-> b.err, rows |-> debian_binary_package,
                    seq |-> sqlite_sequence.debian_binary_package]
              ELSE LET i == insert_debian_binary_package(
                              debian_binary_package,
                              sqlite_sequence.debian_binary_package, unwrap(b.package))
                   IN  [i EXCEPT !.err = CouldNotAddPackageToDatabase(i.err)]
     IN  /\ debian_binary_package' = r.rows
         /\ sqlite_sequence' = [sqlite_sequence EXCEPT !.debian_binary_package = r.seq]
         /\ reply' = [NoReply EXCEPT !.op = "process", !.arg = control, !.err = r.err,
                                     !.value = b.package]
  /\ ops' = ops + 1
  /\ UNCHANGED <<task, fsvars, distributions, distribution_packages, config, release_dir>>

NextRecord == \E control \in Controls, content \in Bodies : ProcessRecord(control, content)

SpecRecord == InitStoreCalls /\ [][NextRecord]_vars

\* the mandatory fields a control block lacks
Missing(control) ==
  {f \in {"Architecture", "Maintainer", "Description"} :
     \/ f = "Architecture" /\ ~is_some(control.architecture)
     \/ f = "Maintainer" /\ ~is_some(control.maintainer)
     \/ f = "Description" /\ ~is_some(control.description)}

\* C21: building a record from a control block that lacks Architecture, Maintainer
\* or the long description fails with the validation error carrying the package
\* name, the version and a missing field, builds nothing and inserts no row; a record
\* built, and every row stored, has the three fields of its control block.
C21_MandatoryFieldsRequired ==
  /\ [](\A r \in debian_binary_package :
          /\ r.control.architecture
               \in {hello_key.architecture, libsqlite0_key.architecture}
          /\ r.control.maintainer = "maintainer"
          /\ r.control.description = "description")
  /\ [][ops' = ops + 1 =>
          LET c == reply'.arg
          IN  IF Missing(c) # {}
              THEN /\ reply'.err.kind = "ControlMissingMandatoryInformation"
                   /\ Len(reply'.err.args) = 3
                   /\ reply'.err.args[1] = c.package
                   /\ reply'.err.args[2] = c.version
                   /\ reply'.err.args[3] \in Missing(c)
                   /\ reply'.value = NoneOpt
                   /\ debian_binary_package' = debian_binary_package
              ELSE /\ reply'.err.kind # "ControlMissingMandatoryInformation"
                   /\ is_some(reply'.value)
                   /\ unwrap(reply'.value).control.architecture = unwrap(c.architecture)
                   /\ unwrap(reply'.value).control.maintainer = unwrap(c.maintainer)
                   /\ unwrap(reply'.value).control.description = unwrap(c.description)]_vars

\* a control block without its long description was refused after a record was stored
C21_Witness ==
  /\ reply.op = "process"
  /\ reply.err.args = <<"hello", "2.10-2", "Description">>
  /\ is_some(reply.arg.architecture) /\ is_some(reply.arg.maintainer)
  /\ StoredKeys(debian_binary_package) = {libsqlite0_key}

\* the files under uploads_dir with their bytes
UploadsView == [n \in DOMAIN uploads |-> inode[uploads[n]]]

\* C22: a step of an ingestion that fails ends the request: no later step of it runs,
\* and the failing step leaves every file and every row as the steps before it left
\* them; a failed insert leaves the placed file at its pool path and the package
\* table as it was.
C22_FailureAbortsWithoutRollback ==
  [][\A p \in Procs :
       /\ (Step(p) /\ task[p].op = "upload" /\ ~Ended(task[p])
           /\ task'[p].pc \in {"failed", "panicked"})
          => /\ PoolView' = PoolView
             /\ UploadsView' = UploadsView
             /\ pool_dirs \subseteq pool_dirs'
             /\ UNCHANGED dbvars
       /\ (Step(p) /\ task[p].pc \in {"failed", "panicked"})
          => /\ task'[p].pc \in {"validate", "get_distribution_id"}
             /\ UNCHANGED <<fsvars, dbvars>>
       /\ (Step(p) /\ task[p].pc = "insert" /\ task'[p].pc = "failed")
          => /\ unwrap(task[p].deb_path) \in DOMAIN pool'
             /\ PoolView'[unwrap(task[p].deb_path)] = PoolView[unwrap(task[p].deb_path)]
             /\ debian_binary_package' = debian_binary_package]_vars

\* an upload whose insert failed has its bytes in the pool and no row of its own
C22_Witness ==
  \E p \in Procs :
    /\ task[p].op = "upload" /\ task[p].result = Some(Conflict) /\ task[p].body = 2
    /\ \E path \in DOMAIN pool : PoolView[path] = 2
    /\ debian_binary_package # {}
    /\ \A r \in debian_binary_package : r.md5sum # calculate_hash("MD5", 2)

(***************************************************************************)
(* The streaming specification: two handlers receive uploads under one     *)
(* file name, and a body reaches its file in two writes.                   *)
(***************************************************************************)
StreamPipeline(p) ==
  \/ Validate(p)
  \/ StreamCreate(p)
  \/ \E b \in Bodies : StreamChunk(p, b)
  \/ \E b \in Bodies : task[p].body \in {0, b} /\ StreamCopy(p, b)
  \/ StreamAbort(p)
  \/ ReadControl(p)
  \/ MovePackageToPool(p)
  \/ HashMd5(p)
  \/ HashSha1(p)
  \/ HashSha256(p)
  \/ BuildRecord(p)
  \/ InsertPackage(p)

NextStream ==
  /\ \E p \in Procs : ReceiveUpload(p, hello_deb, MaxOps) \/ StreamPipeline(p)
  /\ UNCHANGED auxvars

SpecStream == Init /\ [][NextStream]_vars

StreamFailed == Err("StreamToFile", "io")

\* C23: every file in the pool is a body that was received whole; no step of a request
\* that is still receiving its body, or whose stream fails, changes a pool file; and a
\* request whose stream failed has extracted no control data and placed nothing.
C23_IncompleteNeverPlaced ==
  /\ [](\A path \in DOMAIN pool : PoolView[path] \in Bodies)
  /\ [][\A p \in Procs :
          (Step(p) /\ task[p].pc \in {"stream_create", "stream_copy"})
            => /\ PoolView' = PoolView
               /\ task'[p].pc = "failed"
                    => ~is_some(task'[p].control) /\ ~is_some(task'[p].deb_path)]_vars

\* C24: when the stream of an upload fails while its body is being written, the
\* request leaves no file under its name in the uploads directory.
C24_PartialFileDiscarded ==
  [][\A p \in Procs :
       (Step(p) /\ task[p].pc = "stream_copy" /\ task'[p].result = Some(StreamFailed))
         => task[p].package_name \notin DOMAIN uploads']_vars

(***************************************************************************)
(* The restart specification: over a store that holds the package hello,   *)
(* link requests are served one at a time and the server is stopped and    *)
(* started again, which runs insert_distributions over the rows that       *)
(* exist.                                                                  *)
(***************************************************************************)
InitRestart ==
  /\ task = [p \in Procs |-> IdleTask]
  /\ ops = 0
  /\ InitIngested

Restart(order, clock, foreign_keys) ==
  /\ \A p \in Procs : Ended(task[p])
  /\ Startup(order, clock, foreign_keys)

NextRestart ==
  \/ /\ \/ \E package \in LinkPackageKeys, dist \in LinkDistKeys :
            ReceiveLink(1, package, dist, MaxStarts)
        \/ GetDistributionId(1)
        \/ GetPackageId(1)
        \/ InsertLink(1)
     /\ UNCHANGED auxvars
  \/ \E order \in IterOrders(DOMAIN config), clock \in Clocks, foreign_keys \in BOOLEAN :
       Restart(order, clock, foreign_keys)

SpecRestart == InitRestart /\ [][NextRestart]_vars

\* C25: whenever a distribution row or a package row is removed from its table, no
\* link that references the removed row remains.
C25_LinksCascade ==
  [][/\ \A d \in distributions \ distributions' :
          \A l \in distribution_packages' : l.distribution_id # d.id
     /\ \A r \in debian_binary_package \ debian_binary_package' :
          \A l \in distribution_packages' : l.package_id # r.id]_vars

(***************************************************************************)
(* The connection specification: callers run the operations of             *)
(* database.rs one after the other over a store that holds the             *)
(* configured slices; the pool may have no connection to give to any of    *)
(* their db_pool.get() calls, and a statement may fail.                    *)
(***************************************************************************)
\* a get() that reports no failure to its caller
pool_get_unchecked(fault) == Ok

\* db_pool.get().map_err(CouldNotAquirePoolLock) of a pool built with the defaults of
\* r2d2: get() returns its error when connection_timeout has passed without a
\* connection
pool_get(fault) == IF fault = "pool" THEN CouldNotAquirePoolLock ELSE Ok

Call(op, arg, fault, err, value) ==
  [op |-> op, arg |-> arg, fault |-> fault, err |-> err, value |-> value]

\* database::create_tables: the tables exist, CREATE TABLE IF NOT EXISTS changes none
CreateTables(fault) ==
  /\ reply' = Call("create_tables", <<>>, fault,
                   IF pool_get(fault) # Ok THEN pool_get(fault)
                   ELSE IF fault = "busy" THEN Err("CouldNotExecute", "DatabaseBusy")
                   ELSE Ok, <<>>)
  /\ UNCHANGED <<task, fsvars, dbvars, ops, config, release_dir>>

\* database::insert_distributions(&db_conn, &config.dists)
InsertDistributions(order, fault, foreign_keys) ==
  /\ ops < MaxCalls
  /\ LET st == insert_distributions([rows |-> distributions,
                                     seq |-> sqlite_sequence.distributions], config, order)
         done == pool_get(fault) = Ok /\ fault # "busy"
     IN  /\ distributions' = IF done THEN st.rows ELSE distributions
         /\ sqlite_sequence' =
              IF done THEN [sqlite_sequence EXCEPT !.distributions = st.seq]
              ELSE sqlite_sequence
         /\ distribution_packages' =
              IF done
              THEN on_delete_cascade(distribution_packages,
                                     {r.id : r \in distributions \ st.rows}, foreign_keys)
              ELSE distribution_packages
         /\ reply' = Call("insert_distributions", <<>>, fault,
                          IF pool_get(fault) # Ok THEN pool_get(fault)
                          ELSE IF fault = "busy"
                          THEN Err("CouldNotInsertDistribution", "DatabaseBusy")
                          ELSE Ok, <<>>)
  /\ ops' = ops + 1
  /\ UNCHANGED <<task, fsvars, debian_binary_package, config, release_dir>>

\* database::insert_package_to_distribution: three calls, each with a connection of
\* its own; faults[i] is what happens to the i-th
InsertPackageToDistribution(package, dist, faults) ==
  /\ ops < MaxCalls
  /\ LET dist_id == IF pool_get(faults[1]) # Ok THEN [err |-> pool_get(faults[1]), id |-> 0]
                    ELSE IF faults[1] = "busy"
                    THEN [err |-> Err("QueryGetDistributionID", "DatabaseBusy"), id |-> 0]
                    ELSE get_distribution_id(distributions, dist)
         pkg_id == IF pool_get(faults[2]) # Ok THEN [err |-> pool_get(faults[2]), id |-> 0]
                   ELSE IF faults[2] = "busy"
                   THEN [err |-> Err("QueryGetPackageID", "DatabaseBusy"), id |-> 0]
                   ELSE get_package_id(debian_binary_package, package)
         link == IF pool_get(faults[3]) # Ok
                 THEN [err |-> pool_get(faults[3]), links |-> distribution_packages]
                 ELSE IF faults[3] = "busy"
                 THEN [err |-> Err("InsertPackageIDToDistributionID", "DatabaseBusy"),
                       links |-> distribution_packages]
                 ELSE insert_package_id_to_distribution_id(distribution_packages,
                                                           dist_id.id, pkg_id.id)
         r == IF dist_id.err # Ok
              THEN [err |-> dist_id.err, links |-> distribution_packages, fault |-> faults[1]]
              ELSE IF pkg_id.err # Ok
              THEN [err |-> pkg_id.err, links |-> distribution_packages, fault |-> faults[2]]
              ELSE [err |-> link.err, links |-> link.links, fault |-> faults[3]]
     IN  /\ distribution_packages' = r.links
         /\ reply' = Call("insert_package_to_distribution", <<package, dist>>, r.fault,
                          r.err, <<>>)
  /\ ops' = ops + 1
  /\ UNCHANGED <<task, fsvars, debian_binary_package, distributions, sqlite_sequence,
                 config, release_dir>>

\* database::get_published_distributions
GetPublishedDistributions(fault) ==
  /\ reply' = IF pool_get(fault) # Ok
              THEN Call("get_published_distributions", <<>>, fault, pool_get(fault), <<>>)
              ELSE IF fault = "busy"
              THEN Call("get_published_distributions", <<>>, fault,
                        Err("CouldNotPrepareQueryGetPublishedDistributions", "DatabaseBusy"),
                        <<>>)
              ELSE Call("get_published_distributions", <<>>, fault, Ok,
                        get_published_distributions(distributions))
  /\ UNCHANGED <<task, fsvars, dbvars, ops, config, release_dir>>

\* the records callers insert
PoolRecords == {r \in Records : r.description_md5 = NoneOpt}

NextPool ==
  \/ \E fault \in Faults : CreateTables(fault)
  \/ \E order \in IterOrders(DOMAIN config), fault \in Faults, foreign_keys \in BOOLEAN :
       InsertDistributions(order, fault, foreign_keys)
  \/ \E pkg \in PoolRecords, fault \in Faults : InsertDebianBinaryPackage(pkg, fault)
  \/ \E key \in LookupKeys, fault \in Faults : HandleGetPackage(key, fault)
  \/ \E package \in LinkPackageKeys, dist \in LinkDistKeys, faults \in [1..3 -> Faults] :
       InsertPackageToDistribution(package, dist, faults)
  \/ \E fault \in Faults : GetPublishedDistributions(fault)

SpecPool == InitStoreCalls /\ [][NextPool]_vars

PoolGet(p, fault) ==
  /\ task[p].pc = "insert"
  /\ task' = [task EXCEPT ![p] =
       IF pool_get(fault) = Ok THEN [@ EXCEPT !.pc = "execute", !.conn = @ + 1]
       ELSE Finish(@, CouldNotAddPackageToDatabase(pool_get(fault)))]
  /\ UNCHANGED <<fsvars, dbvars, ops>>

\* the INSERT with the connection kept after the function has returned
ExecuteInsertLeaking(p) ==
  /\ task[p].pc = "execute"
  /\ LET r == insert_debian_binary_package(debian_binary_package,
                                           sqlite_sequence.debian_binary_package,
                                           unwrap(task[p].package))
     IN  /\ debian_binary_package' = r.rows
         /\ sqlite_sequence' = [sqlite_sequence EXCEPT !.debian_binary_package = r.seq]
         /\ task' = [task EXCEPT ![p] =
              [Finish(@, CouldNotAddPackageToDatabase(r.err)) EXCEPT !.conn = 1]]
  /\ UNCHANGED <<fsvars, distributions, distribution_packages, ops>>

\* conn.execute("INSERT INTO debian_binary_package ..."); conn is dropped when
\* insert_debian_binary_package returns
ExecuteInsert(p) ==
  /\ task[p].pc = "execute"
  /\ LET r == insert_debian_binary_package(debian_binary_package,
                                           sqlite_sequence.debian_binary_package,
                                           unwrap(task[p].package))
     IN  /\ debian_binary_package' = r.rows
         /\ sqlite_sequence' = [sqlite_sequence EXCEPT !.debian_binary_package = r.seq]
         /\ task' = [task EXCEPT ![p] = Finish(@, CouldNotAddPackageToDatabase(r.err))]
  /\ UNCHANGED <<fsvars, distributions, distribution_packages, ops>>

ConnPipeline(p) ==
  \/ Validate(p)
  \/ StreamCreate(p)
  \/ \E b \in Bodies : StreamCopy(p, b)
  \/ StreamAbort(p)
  \/ ReadControl(p)
  \/ MovePackageToPool(p)
  \/ HashMd5(p)
  \/ HashSha1(p)
  \/ HashSha256(p)
  \/ BuildRecord(p)
  \/ \E fault \in {"none", "pool"} : PoolGet(p, fault)
  \/ ExecuteInsert(p)

NextConn ==
  /\ \E p \in Procs : ReceiveUpload(p, hello_deb, MaxOps) \/ ConnPipeline(p)
  /\ UNCHANGED auxvars

SpecConn == Init /\ [][NextConn]_vars

\* C27: a handler holds a connection of the pool only between the db_pool.get() of
\* insert_debian_binary_package and the return of that function: it takes it in the
\* step after the record was built from the three digests, holds none while it
\* streams, reads the control data, places or hashes, and none once it has ended.
C27_ConnectionHeldLate ==
  /\ [](\A p \in Procs : task[p].conn > 0 => task[p].pc = "execute")
  /\ [][\A p \in Procs :
          (task'[p].conn > task[p].conn)
            => /\ task[p].pc = "insert"
               /\ is_some(task[p].md5) /\ is_some(task[p].sha1) /\ is_some(task[p].sha256)
               /\ is_some(task[p].package)]_vars

\* one handler has ended its ingestion with success and holds no connection, while
\* the other holds one
C27_Witness ==
  \E p, q \in Procs :
    /\ task[p].pc = "done" /\ task[p].op = "upload" /\ task[p].conn = 0
    /\ task[q].conn = 1

\* C28: the three digests of every stored record are digests of the same bytes, and
\* its size is the length of those bytes.
C28_DigestsOfOneContent ==
  \A r \in debian_binary_package :
    /\ r.md5sum.input = r.sha1.input
    /\ r.sha1.input = r.sha256.input
    /\ r.size = st_size(r.md5sum.input)

\* C29: every hashing pass of an ingestion digests the bytes that the file at the pool
\* path returned by its placement has at that moment, the size of its record is the
\* length of the file at that path, and the filename of its record is that path.
C29_HashesThePlacedFile ==
  /\ [](\A p \in Procs :
          is_some(task[p].deb_path) =>
            task[p].deb_path = Some(pool_path(unwrap(file_name(task[p].package_name)))))
  /\ [][\A p \in Procs :
          LET t == task[p]
              u == task'[p]
          IN  /\ (Step(p) /\ t.pc = "md5" /\ u.pc = "sha1") =>
                   unwrap(u.md5).input = PoolView[unwrap(t.deb_path)]
              /\ (Step(p) /\ t.pc = "sha1" /\ u.pc = "sha256") =>
                   unwrap(u.sha1).input = PoolView[unwrap(t.deb_path)]
              /\ (Step(p) /\ t.pc = "sha256" /\ u.pc = "metadata") =>
                   unwrap(u.sha256).input = PoolView[unwrap(t.deb_path)]
              /\ (Step(p) /\ t.pc = "metadata" /\ u.pc = "insert") =>
                   /\ unwrap(u.package).filename = unwrap(t.deb_path)
                   /\ unwrap(u.package).size = st_size(PoolView[unwrap(t.deb_path)])]_vars

\* an ingestion has hashed its placed file while the staging path of its file name
\* holds other bytes, those of a later request
C29_Witness ==
  \E p \in Procs :
    /\ task[p].pc = "metadata"
    /\ task[p].package_name \in DOMAIN uploads
    /\ PlacedContent(task[p]) \in Bodies
    /\ UploadsView[task[p].package_name] \in Bodies \ {PlacedContent(task[p])}
    /\ unwrap(task[p].sha256).input = PlacedContent(task[p])

\* the steps of an ingestion in the order of handle_upload_package and process
StepOrder ==
  <<"validate", "stream_create", "stream_copy", "read_control", "move", "md5", "sha1",
    "sha256", "metadata", "insert", "done">>

StepIndex(pc) == CHOOSE i \in DOMAIN StepOrder : StepOrder[i] = pc

\* what the steps before pc have produced for the request
Succeeded(t, pc) ==
  LET i == StepIndex(pc)
  IN  /\ i > 1 => validate_upload_package_name(t.package_name) = "Ok"
      /\ i > 3 => t.body \in Bodies
      /\ i > 4 => is_some(t.control)
      /\ i > 5 => is_some(t.deb_path)
      /\ i > 6 => is_some(t.md5)
      /\ i > 7 => is_some(t.sha1)
      /\ i > 8 => is_some(t.sha256)
      /\ i > 9 => is_some(t.package)

C31_PersistedBeforeSuccess ==
  [][\A p \in Procs :
       (Step(p) /\ task[p].op = "upload" /\ task'[p].result = Some(Ok)) =>
         /\ is_some(task[p].package) /\ is_some(task[p].deb_path)
         /\ PackageKeyOf(unwrap(task[p].package)) \in StoredKeys(debian_binary_package')
         /\ unwrap(task[p].deb_path) \in DOMAIN pool'
         /\ \E r \in debian_binary_package' :
              /\ PackageKeyOf(r) = PackageKeyOf(unwrap(task[p].package))
              /\ r.filename = unwrap(task[p].deb_path)]_vars

\* both handlers have reported success, for two packages
C31_Witness ==
  /\ \A p \in Procs :
       task[p].op = "upload" /\ task[p].pc = "done" /\ task[p].result = Some(Ok)
  /\ StoredKeys(debian_binary_package) = {hello_key, libsqlite0_key}
  /\ \A r \in debian_binary_package : r.filename \in DOMAIN pool

(***************************************************************************)
(* The reconfiguration specification: between two starts of the server     *)
(* the configuration file may be edited; Repository::new reads it at the   *)
(* next start.                                                             *)
(***************************************************************************)
\* the configuration file is replaced while the server is stopped
Reconfigure(dists) ==
  /\ ops < MaxStarts
  /\ reply.op # "reconfigure"
  /\ config' = dists
  /\ reply' = [NoReply EXCEPT !.op = "reconfigure"]
  /\ UNCHANGED <<task, fsvars, dbvars, ops, release_dir>>

\* the configurations an edit makes of dists by removing one suite, or the last
\* component or the last architecture of every suite
Removals(dists) ==
  LET Front(l) == SubSeq(l, 1, Len(l) - 1)
  IN  {[n \in DOMAIN dists \ {x} |-> dists[n]] : x \in DOMAIN dists}
        \cup {[n \in DOMAIN dists |-> [dists[n] EXCEPT !.components = Front(@)]] :
                 x \in {y \in {1} : \A n \in DOMAIN dists : dists[n].components # <<>>}}
        \cup {[n \in DOMAIN dists |-> [dists[n] EXCEPT !.architectures = Front(@)]] :
                 x \in {y \in {1} : \A n \in DOMAIN dists : dists[n].architectures # <<>>}}

NextReconf ==
  \/ NextDists
  \/ \E dists \in Removals(config) \ {config} : Reconfigure(dists)

SpecReconf == InitDists /\ [][NextReconf]_vars

\* C32: after a run of insert_distributions the distribution table holds the rows of
\* the expansion of the configuration it ran with, with the descriptive fields of the
\* configuration, and no other row.
C32_TableIsExpansion ==
  [][reply'.op = "insert_distributions" => Slices(distributions') = Expansion(config')]_vars

\* C33: whenever no request is being served, every stored record describes the file
\* at its filename: the file is in the pool and has the size and the digests of the
\* record; and no step changes or removes the pool file of a stored record.
C33_RecordsDescribeTheirFiles ==
  /\ []((\A p \in Procs : Ended(task[p])) =>
          \A r \in debian_binary_package : RecordMatchesFile(r))
  /\ [][\A r \in debian_binary_package :
          r.filename \in DOMAIN pool =>
            /\ r.filename \in DOMAIN pool'
            /\ PoolView'[r.filename] = PoolView[r.filename]]_vars

\* C34: no two stored package records have the same filename.
C34_NoSharedPoolFile ==
  \A r1, r2 \in debian_binary_package : r1.filename = r2.filename => r1 = r2

\* C35: the placement of a request whose file name passed the validation returns the
\* pool path or one of its two typed errors; the handler does not panic in it.
C35_PlacementTotal ==
  [][\A p \in Procs :
       (Step(p) /\ task[p].pc = "move"
        /\ validate_upload_package_name(task[p].package_name) = "Ok") =>
          \/ task'[p].pc = "md5" /\ is_some(task'[p].deb_path)
          \/ /\ task'[p].pc = "failed"
             /\ unwrap(task'[p].result).kind \in
                  {"CouldNotCreatePackagesPool", "CouldNotMovePackageToPool"}]_vars

\* C36: a run of insert_distributions with the configuration of the run before leaves
\* the packages listed for every distribution key as they were.
C36_RestartKeepsLinks ==
  [][reply'.op = "insert_distributions" =>
       \A k \in LinkDistKeys : PackagesIn(k)' = PackagesIn(k)]_vars

\* C37: in every reachable state every row of the link table names the id of a row of
\* the distribution table and the id of a row of the package table.
C37_LinksReferToRows ==
  \A l \in distribution_packages :
    /\ l.distribution_id \in {d.id : d \in distributions}
    /\ l.package_id \in {r.id : r \in debian_binary_package}

\* C38: an ingestion that ends with success has recorded the package of its own
\* request body, with the digests and the size of the bytes of that body.
C38_OwnBytesRecorded ==
  [][\A p \in Procs :
       (Step(p) /\ task[p].op = "upload" /\ task'[p].result = Some(Ok)) =>
         LET pkg == unwrap(task[p].package)
             b == task[p].body
         IN  /\ b \in Bodies
             /\ Some(PackageKeyOf(pkg)) = BodyKey(b)
             /\ pkg.md5sum = calculate_hash("MD5", b)
             /\ pkg.sha1 = calculate_hash("SHA1", b)
             /\ pkg.sha256 = calculate_hash("SHA256", b)
             /\ pkg.size = st_size(b)]_vars

(***************************************************************************)
(* The pool specification: two handlers run the statements of link         *)
(* requests and the insert of ingestions over a pool of MaxConns           *)
(* connections.  Each function of database.rs takes a connection with      *)
(* db_pool.get(), which waits while the pool has none to give, and drops   *)
(* it when it returns.  The wait is taken without its time limit.          *)
(***************************************************************************)
MaxConns == 1

\* the connections checked out by these handlers
RECURSIVE InUse(_)
InUse(ps) ==
  IF ps = {} THEN 0
  ELSE LET p == CHOOSE x \in ps : TRUE
       IN  task[p].conn + InUse(ps \ {p})

\* an ingestion has built its record and calls insert_debian_binary_package
ReceiveInsert(p, pkg, max) ==
  /\ ops < max
  /\ Ended(task[p]) /\ FirstFree(p)
  /\ task' = [task EXCEPT ![p] =
       [IdleTask EXCEPT !.op = "upload", !.pc = "insert", !.package = Some(pkg)]]
  /\ ops' = ops + 1
  /\ UNCHANGED <<fsvars, dbvars>>

\* where a handler is before the db_pool.get() of a function, and after it
AcquirePoints ==
  [insert |-> "execute", get_distribution_id |-> "query_distribution_id",
   get_package_id |-> "query_package_id", insert_link |-> "execute_link"]

\* let conn = db_pool.get()...: the handler gets a connection when the pool has one
Acquire(p) ==
  /\ task[p].pc \in DOMAIN AcquirePoints
  /\ InUse(Procs) < MaxConns
  /\ task' = [task EXCEPT ![p] =
       [@ EXCEPT !.pc = AcquirePoints[task[p].pc], !.conn = @ + 1]]
  /\ UNCHANGED <<fsvars, dbvars, ops>>

\* a function of the link request that keeps its connection after its return
StatementKeepingConn(p) ==
  LET t == task[p]
      dist == get_distribution_id(distributions, unwrap(t.dkey))
      pkg == get_package_id(debian_binary_package, unwrap(t.pkey))
      link == insert_package_id_to_distribution_id(distribution_packages,
                                                   t.dist_id, t.pkg_id)
  IN  /\ t.pc \in {"query_distribution_id", "query_package_id", "execute_link"}
      /\ task' = [task EXCEPT ![p] =
           IF t.pc = "query_distribution_id"
           THEN IF dist.err = Ok
                THEN [@ EXCEPT !.pc = "get_package_id", !.dist_id = dist.id]
                ELSE Finish(@, dist.err)
           ELSE IF t.pc = "query_package_id"
           THEN IF pkg.err = Ok
                THEN [@ EXCEPT !.pc = "insert_link", !.pkg_id = pkg.id]
                ELSE Finish(@, pkg.err)
           ELSE Finish(@, link.err)]
      /\ distribution_packages' =
           IF t.pc = "execute_link" THEN link.links ELSE distribution_packages
      /\ UNCHANGED <<fsvars, debian_binary_package, distributions, sqlite_sequence, ops>>

\* the statement of get_distribution_id, get_package_id or
\* insert_package_id_to_distribution_id; conn is dropped when the function returns
Statement(p) ==
  LET t == task[p]
      dist == get_distribution_id(distributions, unwrap(t.dkey))
      pkg == get_package_id(debian_binary_package, unwrap(t.pkey))
      link == insert_package_id_to_distribution_id(distribution_packages,
                                                   t.dist_id, t.pkg_id)
  IN  /\ t.pc \in {"query_distribution_id", "query_package_id", "execute_link"}
      /\ task' = [task EXCEPT ![p] =
           IF t.pc = "query_distribution_id"
           THEN IF dist.err = Ok
                THEN [@ EXCEPT !.pc = "get_package_id", !.dist_id = dist.id,
                               !.conn = @ - 1]
                ELSE Finish(@, dist.err)
           ELSE IF t.pc = "query_package_id"
           THEN IF pkg.err = Ok
                THEN [@ EXCEPT !.pc = "insert_link", !.pkg_id = pkg.id, !.conn = @ - 1]
                ELSE Finish(@, pkg.err)
           ELSE Finish(@, link.err)]
      /\ distribution_packages' =
           IF t.pc = "execute_link" THEN link.links ELSE distribution_packages
      /\ UNCHANGED <<fsvars, debian_binary_package, distributions, sqlite_sequence, ops>>

NextWait ==
  /\ \E p \in Procs :
       \/ \E pkg \in PoolRecords : ReceiveInsert(p, pkg, MaxCalls)
       \/ \E package \in LinkPackageKeys, dist \in LinkDistKeys :
            ReceiveLink(p, package, dist, MaxCalls)
       \/ Acquire(p)
       \/ Statement(p)
       \/ ExecuteInsert(p)
  /\ UNCHANGED auxvars

SpecWait == InitStoreCalls /\ [][NextWait]_vars

\* C39: no handler holds more than one connection of the pool, and whenever a handler
\* waits for a connection, a handler can take a step: a connection is free or a holder
\* is at the statement after which it gives its connection back.
C39_NoConnectionDeadlock ==
  /\ \A p \in Procs : task[p].conn <= 1
  /\ InUse(Procs) <= MaxConns
  /\ (\E p \in Procs : task[p].pc \in DOMAIN AcquirePoints) =>
       ENABLED (\E q \in Procs : Acquire(q) \/ Statement(q) \/ ExecuteInsert(q))

\* a handler waits before the second function of its link request while the other
\* handler holds the only connection
C39_Witness ==
  \E p, q \in Procs :
    /\ task[p].pc = "get_package_id" /\ task[p].conn = 0
    /\ task[q].conn = 1
    /\ InUse(Procs) = MaxConns

====
